---- MODULE Spec2Model ----
(***************************************************************************)
(* Model of the screening aggregation pipeline of featurefinder:           *)
(* ScreeningAggregator (src/aggregator.py), the Screening record           *)
(* (src/scrapers/base.py) and the orchestration in src/main.py.            *)
(*                                                                         *)
(* Strings are TLA+ strings handled character by character (lower, strip,  *)
(* substring search, lexicographic order).  A date is the number of days   *)
(* since Monday 2024-01-01; every datetime of the code is normalised to    *)
(* midnight before it is compared, so the day number is all that matters.  *)
(* An optional value (Python None) is the empty sequence, a present value  *)
(* v is <<v>>.                                                             *)
(***************************************************************************)
EXTENDS Integers, Sequences, FiniteSets, TLC

VARIABLES
    now,              \* the date datetime.now() reports (day number)
    pc,               \* position of the main thread
    nsub,             \* number of tasks submitted to the executor
    work_queue,       \* executor's queue of submitted, not yet started tasks
    fut,              \* state of each scraper's future
    result,           \* what _scrape_single_source returned, per scraper
    calls,            \* number of times scraper.scrape() was invoked
    yielded,          \* futures as_completed has yielded, in order
    all_screenings,   \* the list collect_all_screenings accumulates
    filtered,         \* locals of filter_and_deduplicate at its return
    refiltered,       \* the same for a second run, on the first run's output
    sorted_screenings,\* result of sort_screenings
    grouped,          \* result of group_by_theater (ordered mapping)
    screening,        \* the record under evaluation (pure-function specs)
    verdict,          \* <<(include, reason)>> of _is_worth_including
    parse_now,        \* <<now>> as _parse_ticket_date read it (line 201)
    sale_date,        \* <<result>> of _parse_ticket_date for the record
    resorted,         \* result of sort_screenings on a reordered input
    warned,           \* main printed the "No screenings found" warning
    screening_data,   \* <<the JSON the LLM returned, parsed>>
    validated,        \* <<result>> of _validate_priority_theaters
    top_highlights,   \* the highlights handed to EmailFormatter.format_email
    email,            \* <<(subject, html_body)>> the formatter returned
    exit_code,        \* <<value main returned>>
    retries,          \* fetch_page: its retries argument
    attempt,          \* fetch_page: the loop variable
    responses,        \* fetch_page: outcome of every request made, in order
    slept,            \* fetch_page: the arguments of time.sleep, in order
    fetched,          \* <<value fetch_page returned>>
    event,            \* <<(text, title, description)>> given to the classifier
    tags,             \* <<list EventClassifier.classify returned>>
    special,          \* <<value EventClassifier.is_special returned>>
    cache_file,       \* data/awards_cache.json: None, or <<content>>
    use_cache,        \* get_live_awards_data: its use_cache argument
    fetch_count,      \* number of times the prediction sources were fetched
    update_returns,   \* the values update_cache returned, in order
    awards_data       \* <<(festival_films, oscar_contenders)>> returned

vars == <<now, pc, nsub, work_queue, fut, result, calls, yielded,
          all_screenings, filtered, refiltered, sorted_screenings, grouped,
          screening, verdict, parse_now, sale_date, resorted,
          warned, screening_data, validated, top_highlights, email, exit_code,
          retries, attempt, responses, slept, fetched, event, tags, special,
          cache_file, use_cache, fetch_count, update_returns, awards_data>>

\* the variables of the aggregator other than now and pc
aggregator_state ==
    <<nsub, work_queue, fut, result, calls, yielded, all_screenings, filtered,
      refiltered, sorted_screenings, grouped, screening, verdict, parse_now,
      sale_date, resorted>>

\* the variables of main's later steps and of the formatters
email_state == <<warned, screening_data, validated, top_highlights, email, exit_code>>

\* the variables of BaseScraper.fetch_page
fetch_state == <<retries, attempt, responses, slept, fetched>>

\* the variables of EventClassifier
classifier_state == <<event, tags, special>>

\* the variables of the awards data loader
awards_state == <<cache_file, use_cache, fetch_count, update_returns, awards_data>>

\* everything outside the aggregator
elsewhere == <<email_state, fetch_state, classifier_state, awards_state>>

----------------------------------------------------------------------------------------------------------------------------------------
(* Evaluation helper                                                       *)

\* F applied to the value of v, which is computed once
With(v, F(_)) == CHOOSE r \in {F(x) : x \in {v}} : TRUE

\* least element of a non-empty set of integers
MinOf(S) == CHOOSE x \in S : \A y \in S : x <= y

----------------------------------------------------------------------------
(* Python str: characters, lower(), strip(), in, comparison, join          *)

CharAt(s, i) == SubSeq(s, i, i)

\* Python chr(n) for printable ASCII, by runs of code points: 32..33, 35..91,
\* 93..95 and 97..126 (the double quote, the backslash and the backquote are
\* left out)
Chr(n) ==
    IF n <= 33 THEN CharAt(" !", n - 31)
    ELSE IF n <= 91
         THEN CharAt("#$%&'()*+,-./0123456789:;<=>?@ABCDEFGHIJKLMNOPQRSTUVWXYZ[", n - 34)
    ELSE IF n <= 95 THEN CharAt("]^_", n - 92)
    ELSE CharAt("abcdefghijklmnopqrstuvwxyz{|}~", n - 96)

\* Python ord(c)
OrdF[c \in STRING] == CHOOSE n \in (32..126) \ {34, 92, 96} : Chr(n) = c

Ord(c) == OrdF[c]

\* position of character c in string s, 0 when absent
IndexInF[p \in STRING \X STRING] ==
    IF \E i \in 1..Len(p[2]) : CharAt(p[2], i) = p[1]
    THEN CHOOSE i \in 1..Len(p[2]) : CharAt(p[2], i) = p[1]
    ELSE 0

IndexIn(c, s) == IndexInF[<<c, s>>]

IsUpper(c) == IndexIn(c, "ABCDEFGHIJKLMNOPQRSTUVWXYZ") > 0

IsLowerLetter(c) == IndexIn(c, "abcdefghijklmnopqrstuvwxyz") > 0

IsDigit(c) == IndexIn(c, "0123456789") > 0

\* int(c) for a digit
DigitValue(c) == IndexIn(c, "0123456789") - 1

IsSpace(c) == c = " "

LowerCharF[c \in STRING] ==
    IF IsUpper(c)
    THEN CharAt("abcdefghijklmnopqrstuvwxyz", IndexIn(c, "ABCDEFGHIJKLMNOPQRSTUVWXYZ"))
    ELSE c

LowerChar(c) == LowerCharF[c]

LowerF[s \in STRING] ==
    IF s = "" THEN "" ELSE LowerChar(CharAt(s, 1)) \o LowerF[Tail(s)]

\* str.lower()
Lower(s) == LowerF[s]

LStripF[s \in STRING] ==
    IF s # "" /\ IsSpace(CharAt(s, 1)) THEN LStripF[Tail(s)] ELSE s

RStripF[s \in STRING] ==
    IF s # "" /\ IsSpace(CharAt(s, Len(s)))
    THEN RStripF[SubSeq(s, 1, Len(s) - 1)]
    ELSE s

\* str.strip()
Strip(s) == RStripF[LStripF[s]]

ContainsF[p \in STRING \X STRING] ==
    \E i \in 1..(Len(p[2]) - Len(p[1]) + 1) : SubSeq(p[2], i, i + Len(p[1]) - 1) = p[1]

\* Python (t in s) for strings
Contains(t, s) == ContainsF[<<t, s>>]

StrLessF[p \in STRING \X STRING] ==
    IF p[2] = "" THEN FALSE
    ELSE IF p[1] = "" THEN TRUE
    ELSE IF CharAt(p[1], 1) = CharAt(p[2], 1) THEN StrLessF[<<Tail(p[1]), Tail(p[2])>>]
    ELSE Ord(CharAt(p[1], 1)) < Ord(CharAt(p[2], 1))

\* Python (a < b) for strings: lexicographic by code point
StrLess(a, b) == StrLessF[<<a, b>>]

JoinF[p \in STRING \X Seq(STRING)] ==
    IF p[2] = <<>> THEN ""
    ELSE IF Len(p[2]) = 1 THEN p[2][1]
    ELSE p[2][1] \o p[1] \o JoinF[<<p[1], Tail(p[2])>>]

\* Python sep.join(parts)
Join(sep, parts) == JoinF[<<sep, parts>>]

\* Python s[:n]
Prefix(s, n) == IF Len(s) <= n THEN s ELSE SubSeq(s, 1, n)

\* length of the longest prefix of s whose characters satisfy P
PrefixLen(s, P(_)) ==
    With({i \in 1..Len(s) : ~P(CharAt(s, i))},
         LAMBDA stops : IF stops = {} THEN Len(s) ELSE MinOf(stops) - 1)

----------------------------------------------------------------------------
(* Python datetime, as day numbers since 2024-01-01 (a Monday)             *)

None == <<>>

Some(v) == <<v>>

IsLeap(y) == (y % 4 = 0 /\ y % 100 # 0) \/ y % 400 = 0

DaysInYear(y) == IF IsLeap(y) THEN 366 ELSE 365

DaysInMonth(y, m) ==
    IF m = 2 THEN (IF IsLeap(y) THEN 29 ELSE 28)
    ELSE IF m \in {4, 6, 9, 11} THEN 30 ELSE 31

DaysBeforeYearF[y \in Int] ==
    IF y <= 2024 THEN 0 ELSE DaysBeforeYearF[y - 1] + DaysInYear(y - 1)

DaysBeforeYear(y) == DaysBeforeYearF[y]

DaysBeforeMonthF[p \in Int \X Int] ==
    IF p[2] <= 1 THEN 0
    ELSE DaysBeforeMonthF[<<p[1], p[2] - 1>>] + DaysInMonth(p[1], p[2] - 1)

DaysBeforeMonth(y, m) == DaysBeforeMonthF[<<y, m>>]

\* datetime(y, m, d) for a valid date
ToOrdinal(y, m, d) == DaysBeforeYear(y) + DaysBeforeMonth(y, m) + (d - 1)

\* datetime.year / .month / .day / .weekday() (Monday = 0)
YearOfF[n \in Int] ==
    CHOOSE y \in 2024..2030 : DaysBeforeYear(y) <= n /\ n < DaysBeforeYear(y + 1)

YearOf(n) == YearOfF[n]

MonthOfF[n \in Int] ==
    With(YearOf(n),
         LAMBDA y : CHOOSE m \in 1..12 :
                        /\ ToOrdinal(y, m, 1) <= n
                        /\ n < ToOrdinal(y, m, 1) + DaysInMonth(y, m))

MonthOf(n) == MonthOfF[n]

DayOf(n) == n - ToOrdinal(YearOf(n), MonthOf(n), 1) + 1

Weekday(n) == n % 7

\* variant of the constructor call: the ValueError for a day outside the month
\* is not caught and leaves the function as its outcome
MakeDateUncaught(y, m, d) ==
    IF d >= 1 /\ d <= DaysInMonth(y, m) THEN Some(ToOrdinal(y, m, d))
    ELSE <<"ValueError", "day is out of range for month">>

\* datetime(year, month, day) inside try/except ValueError: None when the day
\* does not exist
MakeDate(y, m, d) ==
    IF d >= 1 /\ d <= DaysInMonth(y, m) THEN Some(ToOrdinal(y, m, d)) ELSE None

----------------------------------------------------------------------------
(* ScreeningAggregator._parse_ticket_date                                  *)

day_names == <<"monday", "tuesday", "wednesday", "thursday", "friday", "saturday", "sunday">>

month_names ==
    ("jan" :> 1) @@ ("january" :> 1) @@ ("feb" :> 2) @@ ("february" :> 2) @@
    ("mar" :> 3) @@ ("march" :> 3) @@ ("apr" :> 4) @@ ("april" :> 4) @@
    ("may" :> 5) @@ ("jun" :> 6) @@ ("june" :> 6) @@ ("jul" :> 7) @@
    ("july" :> 7) @@ ("aug" :> 8) @@ ("august" :> 8) @@ ("sep" :> 9) @@
    ("september" :> 9) @@ ("oct" :> 10) @@ ("october" :> 10) @@
    ("nov" :> 11) @@ ("november" :> 11) @@ ("dec" :> 12) @@ ("december" :> 12)

\* re.match of the pattern on s: letters a-z, whitespace, one or two digits;
\* None, or <<(month_str, day)>>
MonthDayMatchF[s \in STRING] ==
    With(PrefixLen(s, IsLowerLetter), LAMBDA k :
    With(PrefixLen(SubSeq(s, k + 1, Len(s)), IsSpace), LAMBDA w :
    With(SubSeq(s, k + w + 1, Len(s)), LAMBDA digs :
    With(PrefixLen(digs, IsDigit), LAMBDA n :
        IF k >= 1 /\ w >= 1 /\ n >= 1
        THEN Some([month_str |-> SubSeq(s, 1, k),
                   day       |-> IF n >= 2
                                 THEN 10 * DigitValue(CharAt(digs, 1))
                                      + DigitValue(CharAt(digs, 2))
                                 ELSE DigitValue(CharAt(digs, 1))])
        ELSE None))))

MonthDayMatch(s) == MonthDayMatchF[s]

\* the loop over day_names: index (0-based) of the first name found in s
FirstDayName(s) ==
    With({i \in 1..Len(day_names) : Contains(day_names[i], s)},
         LAMBDA hits : IF hits = {} THEN None ELSE Some(MinOf(hits) - 1))

\* month_names.get(key)
MonthLookup(key) == IF key \in DOMAIN month_names THEN Some(month_names[key]) ELSE None

\* variant of the month and day branch: the year is always the current year
ParseMonthDayNoRollover(s, clock) ==
    With(MonthDayMatch(s), LAMBDA m :
        IF m = None THEN None
        ELSE With(MonthLookup(Prefix(m[1].month_str, 3)), LAMBDA month :
             IF month = None THEN None
             ELSE MakeDate(YearOf(clock), month[1], m[1].day)))

\* the month and day branch; s is the stripped, lowercased text
ParseMonthDay(s, clock) ==
    With(MonthDayMatch(s), LAMBDA m :
        IF m = None THEN None
        ELSE With(MonthLookup(Prefix(m[1].month_str, 3)), LAMBDA month :
             IF month = None THEN None
             ELSE MakeDate(IF \/ month[1] < MonthOf(clock)
                              \/ (month[1] = MonthOf(clock) /\ m[1].day < DayOf(clock))
                           THEN YearOf(clock) + 1
                           ELSE YearOf(clock),
                           month[1], m[1].day)))

\* variant of the branches: a weekday name that is today's weekday resolves
\* to today (days_ahead < 0 instead of <= 0)
ParseLoweredSameDay(s, clock) ==
    With(FirstDayName(s), LAMBDA dn :
        IF dn # None
        THEN Some(clock + (IF dn[1] - Weekday(clock) < 0
                           THEN dn[1] - Weekday(clock) + 7
                           ELSE dn[1] - Weekday(clock)))
        ELSE IF Contains("today", s) THEN Some(clock)
        ELSE IF Contains("tomorrow", s) THEN Some(clock + 1)
        ELSE IF Contains("this week", s) \/ Contains("next week", s)
             THEN Some(clock + (IF Contains("next week", s) THEN 7 ELSE 0))
        ELSE ParseMonthDay(s, clock))

\* variant of the branches: a weekday name resolves to that weekday of the
\* current week, which may already have passed (no days_ahead += 7)
ParseLoweredThisWeek(s, clock) ==
    With(FirstDayName(s), LAMBDA dn :
        IF dn # None
        THEN Some(clock + dn[1] - Weekday(clock))
        ELSE IF Contains("today", s) THEN Some(clock)
        ELSE IF Contains("tomorrow", s) THEN Some(clock + 1)
        ELSE IF Contains("this week", s) \/ Contains("next week", s)
             THEN Some(clock + (IF Contains("next week", s) THEN 7 ELSE 0))
        ELSE ParseMonthDay(s, clock))

\* the branches after the empty-text test; s is the stripped, lowercased text
ParseLowered(s, clock) ==
    With(FirstDayName(s), LAMBDA dn :
        IF dn # None
        THEN Some(clock + (IF dn[1] - Weekday(clock) <= 0
                           THEN dn[1] - Weekday(clock) + 7
                           ELSE dn[1] - Weekday(clock)))
        ELSE IF Contains("today", s) THEN Some(clock)
        ELSE IF Contains("tomorrow", s) THEN Some(clock + 1)
        ELSE IF Contains("this week", s) \/ Contains("next week", s)
             THEN Some(clock + (IF Contains("next week", s) THEN 7 ELSE 0))
        ELSE ParseMonthDay(s, clock))

\* None, or <<date>>; clock is the value datetime.now() returns inside the call
parse_ticket_date(date_str, clock) ==
    IF date_str = "" THEN None
    ELSE With(Lower(Strip(date_str)), LAMBDA s : ParseLowered(s, clock))

----------------------------------------------------------------------------
(* Screening (src/scrapers/base.py) and the inclusion filter               *)

\* A Screening with the fields the aggregator reads.  tickets_on_sale is not
\* set by Screening.__init__: None stands for the attribute being absent.
Screening(title, theater, date, description, special_note, priority, ticket_sale_date, tickets_on_sale) ==
    [title |-> title, theater |-> theater, date |-> date,
     description |-> description, special_note |-> special_note,
     priority |-> priority, ticket_sale_date |-> ticket_sale_date,
     tickets_on_sale |-> tickets_on_sale]

TicketWindow == 14

repertory_theaters ==
    <<"film at lincoln center", "lincoln center", "film forum",
      "ifc center", "metrograph", "anthology", "paris theater",
      "angelika", "quad", "amc", "moma", "alamo drafthouse">>

special_keywords ==
    <<"q&a", "director", "premiere", "festival", "imax",
      "70mm", "35mm", "restoration", "retrospective",
      "exclusive", "limited", "advance", "special">>

\* days_until_sale = (ticket_date - today).days, None when there is no date;
\* clock_parse is the clock read inside _parse_ticket_date, clock_today the
\* one read for today
DaysUntilSale(s, clock_parse, clock_today) ==
    With(parse_ticket_date(s.ticket_sale_date, clock_parse),
         LAMBDA ticket_date :
             IF ticket_date = None THEN None ELSE Some(ticket_date[1] - clock_today))

\* variant of the first check: the fourteenth day is left out
TicketSaleSoonExclusive(s, clock_parse, clock_today) ==
    /\ s.ticket_sale_date # ""
    /\ With(DaysUntilSale(s, clock_parse, clock_today),
            LAMBDA d : d # None /\ 0 <= d[1] /\ d[1] < TicketWindow)

\* first check: the ticket sale date lies within the next 14 days
TicketSaleSoon(s, clock_parse, clock_today) ==
    /\ s.ticket_sale_date # ""
    /\ With(DaysUntilSale(s, clock_parse, clock_today),
            LAMBDA d : d # None /\ 0 <= d[1] /\ d[1] <= TicketWindow)

TicketFailure(s, clock_parse) ==
    IF s.ticket_sale_date = "" THEN "no ticket sale date"
    ELSE IF parse_ticket_date(s.ticket_sale_date, clock_parse) = None
         THEN "couldn't parse ticket date: " \o s.ticket_sale_date
         ELSE "ticket sale date too far: " \o s.ticket_sale_date

MatchingTheaters(s) ==
    With(Lower(s.theater),
         LAMBDA theater : SelectSeq(repertory_theaters, LAMBDA t : Contains(t, theater)))

MatchingKeywords(s) ==
    With(Lower(s.title \o " " \o s.description),
         LAMBDA text : SelectSeq(special_keywords, LAMBDA kw : Contains(kw, text)))

\* variant of the later checks: the explanation of the failed ticket sale
\* check is not carried over into the rejection reason
OtherChecksForgettingTicket(s, ticket_failed) ==
    IF s.special_note # ""
    THEN [include |-> TRUE, reason |-> "Has special note: " \o s.special_note]
    ELSE With(MatchingTheaters(s), LAMBDA theaters :
         IF theaters # <<>>
         THEN [include |-> TRUE,
               reason  |-> "From repertory/art house theater: " \o theaters[1]]
         ELSE With(MatchingKeywords(s), LAMBDA keywords :
              IF keywords # <<>>
              THEN [include |-> TRUE,
                    reason  |-> "Contains special keywords: " \o Join(", ", keywords)]
              ELSE [include |-> FALSE,
                    reason  |-> Join("; ",
                        <<"no special notes",
                          "not from repertory theater (theater: " \o s.theater \o ")",
                          "no special keywords in title/description">>)]))

\* the checks after the ticket sale check failed with explanation ticket_failed
OtherChecks(s, ticket_failed) ==
    IF s.special_note # ""
    THEN [include |-> TRUE, reason |-> "Has special note: " \o s.special_note]
    ELSE With(MatchingTheaters(s), LAMBDA theaters :
         IF theaters # <<>>
         THEN [include |-> TRUE,
               reason  |-> "From repertory/art house theater: " \o theaters[1]]
         ELSE With(MatchingKeywords(s), LAMBDA keywords :
              IF keywords # <<>>
              THEN [include |-> TRUE,
                    reason  |-> "Contains special keywords: " \o Join(", ", keywords)]
              ELSE [include |-> FALSE,
                    reason  |-> Join("; ",
                        <<ticket_failed,
                          "no special notes",
                          "not from repertory theater (theater: " \o s.theater \o ")",
                          "no special keywords in title/description">>)]))

\* variant of _is_worth_including: the special note is checked first
is_worth_including_note_first(s, clock_parse, clock_today) ==
    IF s.special_note # ""
    THEN [include |-> TRUE, reason |-> "Has special note: " \o s.special_note]
    ELSE IF TicketSaleSoon(s, clock_parse, clock_today)
    THEN [include |-> TRUE,
          reason  |-> "Tickets on sale within 14 days (" \o s.ticket_sale_date \o ")"]
    ELSE OtherChecks(s, TicketFailure(s, clock_parse))

is_worth_including(s, clock_parse, clock_today) ==
    IF TicketSaleSoon(s, clock_parse, clock_today)
    THEN [include |-> TRUE,
          reason  |-> "Tickets on sale within 14 days (" \o s.ticket_sale_date \o ")"]
    ELSE OtherChecks(s, TicketFailure(s, clock_parse))

----------------------------------------------------------------------------
(* ScreeningAggregator.filter_and_deduplicate                              *)

DedupKey(s) == <<Strip(Lower(s.title)), Strip(Lower(s.theater)), Strip(Lower(s.date))>>

\* variant of DedupLoop: a later duplicate replaces the record kept so far
RECURSIVE DedupLoopLastWins(_, _, _, _)
DedupLoopLastWins(rest, seen, unique, dups) ==
    IF rest = <<>>
    THEN [unique_screenings |-> unique, duplicates_removed |-> dups]
    ELSE With(<<Head(rest), DedupKey(Head(rest)), unique>>, LAMBDA sk :
         IF sk[2] \notin seen
         THEN DedupLoopLastWins(Tail(rest), seen \cup {sk[2]}, Append(sk[3], sk[1]), dups)
         ELSE DedupLoopLastWins(Tail(rest), seen,
                  [i \in 1..Len(sk[3]) |->
                      IF DedupKey(sk[3][i]) = sk[2] THEN sk[1] ELSE sk[3][i]],
                  dups + 1))

\* variant of DedupLoop: only the key of the previous record is remembered
RECURSIVE DedupLoopAdjacentOnly(_, _, _, _)
DedupLoopAdjacentOnly(rest, seen, unique, dups) ==
    IF rest = <<>>
    THEN [unique_screenings |-> unique, duplicates_removed |-> dups]
    ELSE With(<<Head(rest), DedupKey(Head(rest))>>, LAMBDA sk :
         IF sk[2] \notin seen
         THEN DedupLoopAdjacentOnly(Tail(rest), {sk[2]}, Append(unique, sk[1]), dups)
         ELSE DedupLoopAdjacentOnly(Tail(rest), seen, unique, dups + 1))

\* the first loop: seen, unique_screenings, duplicates_removed
RECURSIVE DedupLoop(_, _, _, _)
DedupLoop(rest, seen, unique, dups) ==
    IF rest = <<>>
    THEN [unique_screenings |-> unique, duplicates_removed |-> dups]
    ELSE With(<<Head(rest), DedupKey(Head(rest))>>, LAMBDA sk :
         IF sk[2] \notin seen
         THEN DedupLoop(Tail(rest), seen \cup {sk[2]}, Append(unique, sk[1]), dups)
         ELSE DedupLoop(Tail(rest), seen, unique, dups + 1))

\* variant of FilterLoop: an excluded record is dropped without being recorded
RECURSIVE FilterLoopSilentDrop(_, _, _, _)
FilterLoopSilentDrop(rest, kept, out, clock) ==
    IF rest = <<>>
    THEN [filtered_screenings |-> kept, filtered_out |-> out]
    ELSE With(<<Head(rest), is_worth_including(Head(rest), clock, clock)>>, LAMBDA sr :
         IF sr[2].include
         THEN FilterLoopSilentDrop(Tail(rest), Append(kept, sr[1]), out, clock)
         ELSE FilterLoopSilentDrop(Tail(rest), kept, out, clock))

\* the second loop: filtered_screenings, filtered_out
RECURSIVE FilterLoop(_, _, _, _)
FilterLoop(rest, kept, out, clock) ==
    IF rest = <<>>
    THEN [filtered_screenings |-> kept, filtered_out |-> out]
    ELSE With(<<Head(rest), is_worth_including(Head(rest), clock, clock)>>, LAMBDA sr :
         IF sr[2].include
         THEN FilterLoop(Tail(rest), Append(kept, sr[1]), out, clock)
         ELSE FilterLoop(Tail(rest), kept, Append(out, <<sr[1], sr[2].reason>>), clock))

\* the locals of filter_and_deduplicate when it returns; the value returned
\* is filtered_screenings
filter_and_deduplicate(screenings, clock) ==
    With(DedupLoop(screenings, {}, <<>>, 0), LAMBDA d :
    With(FilterLoop(d.unique_screenings, <<>>, <<>>, clock), LAMBDA f :
        [unique_screenings   |-> d.unique_screenings,
         duplicates_removed  |-> d.duplicates_removed,
         filtered_screenings |-> f.filtered_screenings,
         filtered_out        |-> f.filtered_out]))

----------------------------------------------------------------------------
(* ScreeningAggregator.sort_screenings and group_by_theater                *)

\* list.insert into a sorted list, after the elements that are not greater
InsertSorted(acc, x, Less(_, _)) ==
    With({i \in 1..Len(acc) : Less(x, acc[i])}, LAMBDA after :
    With(IF after = {} THEN Len(acc) + 1 ELSE MinOf(after), LAMBDA k :
        SubSeq(acc, 1, k - 1) \o <<x>> \o SubSeq(acc, k, Len(acc))))

\* sorted(xs, key=...): a stable sort; Less(a, b) is key(a) < key(b)
StableSort(xs, Less(_, _)) ==
    LET RECURSIVE Run(_, _)
        Run(acc, rest) ==
            IF rest = <<>> THEN acc
            ELSE With(<<InsertSorted(acc, Head(rest), Less), Tail(rest)>>,
                      LAMBDA st : Run(st[1], st[2]))
    IN  With(xs, LAMBDA v : Run(<<>>, v))

\* variant of availability_priority: a record without the attribute keeps the
\* initial value 0
AvailabilityPriorityDefaultZero(s) ==
    IF s.tickets_on_sale = None THEN 0
    ELSE IF s.tickets_on_sale[1] = "on_sale" THEN 0
    ELSE IF s.tickets_on_sale[1] = "not_yet" THEN 1
    ELSE IF s.tickets_on_sale[1] = "sold_out" THEN 3
    ELSE 2

AvailabilityPriority(s) ==
    IF s.tickets_on_sale = None THEN 2
    ELSE IF s.tickets_on_sale[1] = "on_sale" THEN 0
    ELSE IF s.tickets_on_sale[1] = "not_yet" THEN 1
    ELSE IF s.tickets_on_sale[1] = "sold_out" THEN 3
    ELSE 2

\* variant of ticket_priority: the sale date counts in every bucket
TicketPriorityEveryBucket(s, clock_parse, clock_today) ==
    With(IF s.ticket_sale_date # ""
         THEN DaysUntilSale(s, clock_parse, clock_today)
         ELSE None,
         LAMBDA d :
             IF d # None
             THEN (IF 0 <= d[1] /\ d[1] <= TicketWindow THEN d[1] ELSE 999)
             ELSE 1000)

TicketPriority(s, clock_parse, clock_today) ==
    With(IF s.ticket_sale_date # ""
         THEN DaysUntilSale(s, clock_parse, clock_today)
         ELSE None,
         LAMBDA d :
             IF d # None /\ AvailabilityPriority(s) = 1
             THEN (IF 0 <= d[1] /\ d[1] <= TicketWindow THEN d[1] ELSE 999)
             ELSE 1000)

sort_key(s, clock_parse, clock_today) ==
    <<AvailabilityPriority(s), TicketPriority(s, clock_parse, clock_today),
      s.priority, s.theater, s.title>>

\* Python tuple comparison of two sort keys
KeyLess(a, b) ==
    \/ a[1] < b[1]
    \/ a[1] = b[1] /\ a[2] < b[2]
    \/ a[1] = b[1] /\ a[2] = b[2] /\ a[3] < b[3]
    \/ a[1] = b[1] /\ a[2] = b[2] /\ a[3] = b[3] /\ StrLess(a[4], b[4])
    \/ a[1] = b[1] /\ a[2] = b[2] /\ a[3] = b[3] /\ a[4] = b[4] /\ StrLess(a[5], b[5])

\* the list of <<key, screening>> pairs sorted() works on
RECURSIVE Keyed(_, _)
Keyed(screenings, clock) ==
    IF screenings = <<>> THEN <<>>
    ELSE <<With(Head(screenings), LAMBDA x : <<sort_key(x, clock, clock), x>>)>>
         \o Keyed(Tail(screenings), clock)

\* the second components of a list of pairs
RECURSIVE Unkeyed(_)
Unkeyed(pairs) ==
    IF pairs = <<>> THEN <<>> ELSE <<Head(pairs)[2]>> \o Unkeyed(Tail(pairs))

\* variant of sort_screenings: the list is reversed before it is sorted, so
\* records with equal keys come out in reverse input order
sort_screenings_reversing_ties(screenings, clock) ==
    With(Keyed([i \in 1..Len(screenings) |-> screenings[Len(screenings) + 1 - i]], clock),
         LAMBDA pairs : Unkeyed(StableSort(pairs, LAMBDA a, b : KeyLess(a[1], b[1]))))

sort_screenings(screenings, clock) ==
    With(Keyed(screenings, clock), LAMBDA pairs :
        Unkeyed(StableSort(pairs, LAMBDA a, b : KeyLess(a[1], b[1]))))

\* variant of the loop: a record of a venue already seen replaces the
\* venue's list (grouped[theater] = [screening])
RECURSIVE GroupLoopOverwriting(_, _)
GroupLoopOverwriting(rest, groups) ==
    IF rest = <<>> THEN groups
    ELSE With(<<Head(rest), Tail(rest), groups>>, LAMBDA st :
         With({i \in 1..Len(st[3]) : st[3][i][1] = st[1].theater}, LAMBDA hits :
             IF hits = {}
             THEN GroupLoopOverwriting(st[2], Append(st[3], <<st[1].theater, <<st[1]>>>>))
             ELSE GroupLoopOverwriting(st[2],
                            [st[3] EXCEPT ![MinOf(hits)] = <<st[1].theater, <<st[1]>>>>])))

\* variant of the loop: a record is put at the front of its venue's list
RECURSIVE GroupLoopPrepending(_, _)
GroupLoopPrepending(rest, groups) ==
    IF rest = <<>> THEN groups
    ELSE With(<<Head(rest), Tail(rest), groups>>, LAMBDA st :
         With({i \in 1..Len(st[3]) : st[3][i][1] = st[1].theater}, LAMBDA hits :
             IF hits = {}
             THEN GroupLoopPrepending(st[2], Append(st[3], <<st[1].theater, <<st[1]>>>>))
             ELSE GroupLoopPrepending(st[2],
                            [st[3] EXCEPT ![MinOf(hits)] =
                                <<st[1].theater, <<st[1]>> \o st[3][MinOf(hits)][2]>>])))

\* the loop filling the dict: entries <<theater, screenings>> in the order
\* the theaters first appear
RECURSIVE GroupLoop(_, _)
GroupLoop(rest, groups) ==
    IF rest = <<>> THEN groups
    ELSE With(<<Head(rest), Tail(rest), groups>>, LAMBDA st :
         With({i \in 1..Len(st[3]) : st[3][i][1] = st[1].theater}, LAMBDA hits :
             IF hits = {}
             THEN GroupLoop(st[2], Append(st[3], <<st[1].theater, <<st[1]>>>>))
             ELSE GroupLoop(st[2],
                            [st[3] EXCEPT ![MinOf(hits)] =
                                <<st[1].theater, Append(st[3][MinOf(hits)][2], st[1])>>])))

\* min(s.priority for s in screenings)
MinPriority(screenings) == MinOf({screenings[i].priority : i \in 1..Len(screenings)})

\* the ordered mapping returned: a sequence of <<theater, screenings>>
group_by_theater(screenings) ==
    StableSort(GroupLoop(screenings, <<>>),
               LAMBDA a, b : MinPriority(a[2]) < MinPriority(b[2]))

----------------
(* Bounds and inputs                                                       *)

\* number of scrapers the aggregator is built with
NumScrapers == 3

\* longest list handed to filter_and_deduplicate
MaxLen == 3

\* number of days after NowFirst the clock may show
NowSpan == 15

\* Saturday 2025-11-01
NowFirst == ToOrdinal(2025, 11, 1)

NowDays == NowFirst..(NowFirst + NowSpan)

\* the dates the filter is run on: the sale date "nov 15" is within the
\* window on the first and has passed on the second
FilterDays == {NowFirst, NowFirst + TicketWindow + 1}

\* self.scrapers, by name, in the order of __init__
scraper_names ==
    <<"Film at Lincoln Center", "AMC Theatres", "MoMA", "Alamo Drafthouse",
      "The New Yorker", "Screenslate", "Metrograph", "Film Forum",
      "Angelika Film Center", "IFC Center", "Time Out NYC", "r/NYCmovies">>

Scrapers == 1..NumScrapers

\* records scrapers hand over
Nosferatu == Screening("Nosferatu", "Film Forum", "Nov 15", "", "", 1, "", None)

NosferatuAgain == Screening("NOSFERATU", " film forum ", "nov 15", "", "", 2, "", None)

HeatPlain == Screening("Heat", "Random Multiplex", "Nov 15", "", "", 5, "", None)

HeatOnSaleSoon == Screening("Heat", "Random Multiplex", "Nov 16", "", "", 5, "nov 15", None)

HeatWithNote == Screening("heat ", "random multiplex", "NOV 15", "", "Q&A", 3, "", None)

Alien70mm == Screening("Alien", "Zed Cinema", "Nov 20", "New 70mm print", "", 3, "", None)

Catalog == {Nosferatu, NosferatuAgain, HeatPlain, HeatOnSaleSoon, HeatWithNote, Alien70mm}

\* what one scraper's scrape() may return
Listings == {<<>>, <<Nosferatu, HeatPlain>>, <<NosferatuAgain>>}

\* str(e) of the exception a scraper raises
ErrorTexts == {"", "HTTP 503"}

\* every list of at most n records of the catalog
ListsUpTo(n) == UNION {[1..k -> Catalog] : k \in 0..n}

----------------------------------------------------------------------------
(* ScreeningAggregator.collect_all_screenings and main                     *)

\* variant of _scrape_single_source without its except clause: what
\* scrape() raises becomes the future's exception
scrape_single_source_uncaught(a, outcome) ==
    IF outcome.kind = "return"
    THEN [exception |-> None,
          value |-> [scraper_name |-> scraper_names[a],
                     screenings   |-> outcome.screenings,
                     error        |-> None]]
    ELSE [exception |-> Some(outcome.text), value |-> None]

\* _scrape_single_source: the tuple (scraper_name, screenings, error) it
\* returns for what scraper.scrape() did; the future then holds it as its
\* result (exception = None)
scrape_single_source(a, outcome) ==
    IF outcome.kind = "return"
    THEN [exception |-> None,
          value |-> [scraper_name |-> scraper_names[a],
                     screenings   |-> outcome.screenings,
                     error        |-> None]]
    ELSE [exception |-> None,
          value |-> [scraper_name |-> scraper_names[a],
                     screenings   |-> <<>>,
                     error        |-> Some(outcome.text)]]

\* Python (not error) for error None or a string
NotError(error) == error = None \/ error[1] = ""

Running == {a \in Scrapers : fut[a] \in {"running", "hung"}}

\* nothing submitted, nothing computed
\* main's later steps and the formatters have not run
EmailIdle ==
    /\ warned = FALSE
    /\ screening_data = None
    /\ validated = None
    /\ top_highlights = <<>>
    /\ email = None
    /\ exit_code = None

\* fetch_page is not running
FetchIdle ==
    /\ retries = 0
    /\ attempt = 0
    /\ responses = <<>>
    /\ slept = <<>>
    /\ fetched = None

\* the classifier has not been called
ClassifierIdle ==
    /\ event = None
    /\ tags = None
    /\ special = None

\* the awards data has not been asked for
AwardsIdle ==
    /\ cache_file = None
    /\ use_cache = TRUE
    /\ fetch_count = 0
    /\ update_returns = <<>>
    /\ awards_data = None

\* nothing outside the aggregator has run
OtherModulesIdle == EmailIdle /\ FetchIdle /\ ClassifierIdle /\ AwardsIdle

\* the aggregator has collected nothing and computed nothing
AggregatorIdle ==
    /\ nsub = 0
    /\ work_queue = <<>>
    /\ fut = [a \in Scrapers |-> "unsubmitted"]
    /\ result = [a \in Scrapers |-> None]
    /\ calls = [a \in Scrapers |-> 0]
    /\ yielded = <<>>
    /\ filtered = None
    /\ refiltered = None
    /\ sorted_screenings = None
    /\ grouped = None
    /\ verdict = None
    /\ parse_now = None
    /\ sale_date = None
    /\ resorted = None

Idle ==
    /\ nsub = 0
    /\ work_queue = <<>>
    /\ fut = [a \in Scrapers |-> "unsubmitted"]
    /\ result = [a \in Scrapers |-> None]
    /\ calls = [a \in Scrapers |-> 0]
    /\ yielded = <<>>
    /\ filtered = None
    /\ refiltered = None
    /\ sorted_screenings = None
    /\ grouped = None
    /\ verdict = None
    /\ parse_now = None
    /\ sale_date = None
    /\ resorted = None
    /\ OtherModulesIdle

Init ==
    /\ now = NowFirst
    /\ pc = "start"
    /\ all_screenings = <<>>
    /\ screening = None
    /\ Idle

\* all_screenings = []; the executor is created with max_workers = len(scrapers)
Begin ==
    /\ pc = "start"
    /\ pc' = "submit"
    /\ all_screenings' = <<>>
    /\ UNCHANGED <<now, nsub, work_queue, fut, result, calls, yielded,
                   filtered, refiltered, sorted_screenings, grouped, screening, verdict,
                   parse_now, sale_date, resorted, elsewhere>>

\* executor.submit(self._scrape_single_source, scraper), in list order
Submit ==
    /\ pc = "submit"
    /\ nsub < NumScrapers
    /\ nsub' = nsub + 1
    /\ fut' = [fut EXCEPT ![nsub + 1] = "pending"]
    /\ work_queue' = Append(work_queue, nsub + 1)
    /\ pc' = IF nsub + 1 = NumScrapers THEN "as_completed" ELSE "submit"
    /\ UNCHANGED <<now, result, calls, yielded, all_screenings,
                   filtered, refiltered, sorted_screenings, grouped, screening, verdict,
                   parse_now, sale_date, resorted, elsewhere>>

\* a pool thread takes the next task and calls scraper.scrape()
WorkerStart ==
    /\ work_queue # <<>>
    /\ Cardinality(Running) < NumScrapers
    /\ fut' = [fut EXCEPT ![Head(work_queue)] = "running"]
    /\ calls' = [calls EXCEPT ![Head(work_queue)] = @ + 1]
    /\ work_queue' = Tail(work_queue)
    /\ UNCHANGED <<now, pc, nsub, result, yielded, all_screenings,
                   filtered, refiltered, sorted_screenings, grouped, screening, verdict,
                   parse_now, sale_date, resorted, elsewhere>>

\* the task ends: the future gets what _scrape_single_source produced
SetResult(a, outcome) ==
    /\ fut' = [fut EXCEPT ![a] = "finished"]
    /\ result' = [result EXCEPT ![a] = Some(scrape_single_source(a, outcome))]

\* variant of ScrapeReturn: the worker thread itself extends the shared list
ScrapeReturnAppending(a) ==
    /\ fut[a] = "running"
    /\ \E recs \in Listings :
           /\ SetResult(a, [kind |-> "return", screenings |-> recs])
           /\ all_screenings' = all_screenings \o recs
    /\ UNCHANGED <<now, pc, nsub, work_queue, calls, yielded,
                   filtered, refiltered, sorted_screenings, grouped, screening, verdict,
                   parse_now, sale_date, resorted, elsewhere>>

\* scraper.scrape() returns a list
ScrapeReturn(a) ==
    /\ fut[a] = "running"
    /\ \E recs \in Listings : SetResult(a, [kind |-> "return", screenings |-> recs])
    /\ UNCHANGED <<now, pc, nsub, work_queue, calls, yielded, all_screenings,
                   filtered, refiltered, sorted_screenings, grouped, screening, verdict,
                   parse_now, sale_date, resorted, elsewhere>>

\* scraper.scrape() raises an Exception
ScrapeRaise(a) ==
    /\ fut[a] = "running"
    /\ \E text \in ErrorTexts : SetResult(a, [kind |-> "raise", text |-> text])
    /\ UNCHANGED <<now, pc, nsub, work_queue, calls, yielded, all_screenings,
                   filtered, refiltered, sorted_screenings, grouped, screening, verdict,
                   parse_now, sale_date, resorted, elsewhere>>

\* scraper.scrape() never returns
ScrapeHang(a) ==
    /\ fut[a] = "running"
    /\ fut' = [fut EXCEPT ![a] = "hung"]
    /\ UNCHANGED <<now, pc, nsub, work_queue, result, calls, yielded, all_screenings,
                   filtered, refiltered, sorted_screenings, grouped, screening, verdict,
                   parse_now, sale_date, resorted, elsewhere>>

\* variant of Collect: a tuple carrying an error aborts the collection
CollectFailFast(a) ==
    /\ pc = "as_completed"
    /\ fut[a] = "finished"
    /\ \A i \in 1..Len(yielded) : yielded[i] # a
    /\ yielded' = Append(yielded, a)
    /\ IF result[a][1].value.error # None
       THEN pc' = "raised" /\ UNCHANGED all_screenings
       ELSE /\ pc' = pc
            /\ all_screenings' = all_screenings \o result[a][1].value.screenings
    /\ UNCHANGED <<now, nsub, work_queue, fut, result, calls,
                   filtered, refiltered, sorted_screenings, grouped, screening, verdict,
                   parse_now, sale_date, resorted, elsewhere>>

\* one iteration of the as_completed loop: future.result(), which raises
\* what the task raised, then extend when the tuple carries no error
Collect(a) ==
    /\ pc = "as_completed"
    /\ fut[a] = "finished"
    /\ \A i \in 1..Len(yielded) : yielded[i] # a
    /\ yielded' = Append(yielded, a)
    /\ IF result[a][1].exception # None
       THEN pc' = "raised" /\ UNCHANGED all_screenings
       ELSE /\ pc' = pc
            /\ all_screenings' =
                   IF NotError(result[a][1].value.error)
                   THEN all_screenings \o result[a][1].value.screenings
                   ELSE all_screenings
    /\ UNCHANGED <<now, nsub, work_queue, fut, result, calls,
                   filtered, refiltered, sorted_screenings, grouped, screening, verdict,
                   parse_now, sale_date, resorted, elsewhere>>

\* variant of Shutdown: returns once the futures finished so far are consumed,
\* without waiting for the others
ShutdownWithoutJoin ==
    /\ pc = "as_completed"
    /\ \A a \in Scrapers : fut[a] = "finished" => \E i \in 1..Len(yielded) : yielded[i] = a
    /\ pc' = "returned"
    /\ UNCHANGED <<now, nsub, work_queue, fut, result, calls, yielded, all_screenings,
                   filtered, refiltered, sorted_screenings, grouped, screening, verdict,
                   parse_now, sale_date, resorted, elsewhere>>

\* as_completed is exhausted, the with block joins the pool, return
Shutdown ==
    /\ pc = "as_completed"
    /\ Len(yielded) = NumScrapers
    /\ pc' = "returned"
    /\ UNCHANGED <<now, nsub, work_queue, fut, result, calls, yielded, all_screenings,
                   filtered, refiltered, sorted_screenings, grouped, screening, verdict,
                   parse_now, sale_date, resorted, elsewhere>>

\* main, after step 1: the warning printed when all_screenings is empty
\* ("Continue anyway"), then step 2:
\* aggregator.filter_and_deduplicate(all_screenings)
FilterStep ==
    /\ pc = "returned"
    /\ warned' = (all_screenings = <<>>)
    /\ filtered' = Some(filter_and_deduplicate(all_screenings, now))
    /\ pc' = "filtered"
    /\ UNCHANGED <<now, nsub, work_queue, fut, result, calls, yielded, all_screenings,
                   refiltered, sorted_screenings, grouped, screening, verdict,
                   parse_now, sale_date, resorted, fetch_state, classifier_state,
                   awards_state, screening_data, validated, top_highlights, email,
                   exit_code>>

\* variant of step 3: the list is sorted in place (list.sort), so the list
\* filter_and_deduplicate returned is reordered too
SortStepInPlace ==
    /\ pc = "filtered"
    /\ sorted_screenings' = Some(sort_screenings(filtered[1].filtered_screenings, now))
    /\ filtered' = Some([filtered[1] EXCEPT !.filtered_screenings =
                             sort_screenings(filtered[1].filtered_screenings, now)])
    /\ pc' = "sorted"
    /\ UNCHANGED <<now, nsub, work_queue, fut, result, calls, yielded, all_screenings,
                   refiltered, grouped, screening, verdict,
                   parse_now, sale_date, resorted, elsewhere>>

\* main, step 3: aggregator.sort_screenings(filtered_screenings)
SortStep ==
    /\ pc = "filtered"
    /\ sorted_screenings' = Some(sort_screenings(filtered[1].filtered_screenings, now))
    /\ pc' = "sorted"
    /\ UNCHANGED <<now, nsub, work_queue, fut, result, calls, yielded, all_screenings,
                   filtered, refiltered, grouped, screening, verdict,
                   parse_now, sale_date, resorted, elsewhere>>

\* main, step 3: aggregator.group_by_theater(sorted_screenings)
GroupStep ==
    /\ pc = "sorted"
    /\ grouped' = Some(group_by_theater(sorted_screenings[1]))
    /\ pc' = "grouped"
    /\ UNCHANGED <<now, nsub, work_queue, fut, result, calls, yielded, all_screenings,
                   filtered, refiltered, sorted_screenings, screening, verdict,
                   parse_now, sale_date, resorted, elsewhere>>

Next ==
    \/ Begin
    \/ Submit
    \/ WorkerStart
    \/ \E a \in Scrapers : ScrapeReturn(a)
    \/ \E a \in Scrapers : ScrapeRaise(a)
    \/ \E a \in Scrapers : ScrapeHang(a)
    \/ \E a \in Scrapers : Collect(a)
    \/ Shutdown
    \/ FilterStep
    \/ SortStep
    \/ GroupStep

Spec == Init /\ [][Next]_vars

----------------------------------------------------------------------------
(* filter_and_deduplicate on any list of catalog records                   *)

InitFilter ==
    /\ now \in FilterDays
    /\ pc = "returned"
    /\ all_screenings \in ListsUpTo(MaxLen)
    /\ screening = None
    /\ Idle

\* filter_and_deduplicate called on the list it returned
Refilter ==
    /\ pc = "filtered"
    /\ refiltered' = Some(filter_and_deduplicate(filtered[1].filtered_screenings, now))
    /\ pc' = "refiltered"
    /\ UNCHANGED <<now, nsub, work_queue, fut, result, calls, yielded, all_screenings,
                   filtered, sorted_screenings, grouped, screening, verdict,
                   parse_now, sale_date, resorted, elsewhere>>

NextFilter == FilterStep \/ Refilter

SpecFilter == InitFilter /\ [][NextFilter]_vars

----------------------------------------------------------------------------
(* _is_worth_including on one record                                       *)

TicketTexts == {"", "today", "Tomorrow", "Tuesday", "next week", "Nov 15", "Dec 25", "TBA"}

SpecialNotes == {"", "Q&A with cast"}

Theaters == {"Random Multiplex", "Film Forum", "AMC Lincoln Square"}

TitlesAndSynopses ==
    {<<"Heat", "">>, <<"Heat", "New 70mm Restoration">>, <<"Premiere Night", "">>}

Candidates ==
    {Screening(ts[1], th, "Nov 20", ts[2], note, 5, sale, None) :
        ts \in TitlesAndSynopses, th \in Theaters, note \in SpecialNotes, sale \in TicketTexts}

InitInclude ==
    /\ now \in NowDays
    /\ pc = "evaluate"
    /\ all_screenings = <<>>
    /\ screening \in {Some(c) : c \in Candidates}
    /\ Idle

\* result, reason = self._is_worth_including(s)
Evaluate ==
    /\ pc = "evaluate"
    /\ verdict' = Some(is_worth_including(screening[1], now, now))
    /\ pc' = "evaluated"
    /\ UNCHANGED <<now, nsub, work_queue, fut, result, calls, yielded, all_screenings,
                   filtered, refiltered, sorted_screenings, grouped, screening,
                   parse_now, sale_date, resorted, elsewhere>>

NextInclude == Evaluate

SpecInclude == InitInclude /\ [][NextInclude]_vars

----------------------------------------------------------------------------
(* Properties of the collection stage (specification Spec)                 *)

\* collect_all_screenings has returned its list to main
CollectReturned ==
    pc \in {"returned", "filtered", "sorted", "grouped", "formatted", "aborted",
            "sent", "not_sent", "sender_raised"}

\* number of occurrences of record r in list xs
Count(r, xs) == Cardinality({i \in 1..Len(xs) : xs[i] = r})

\* scraper a's scrape() returned a list / raised
Succeeded(a) ==
    /\ result[a] # None
    /\ result[a][1].exception = None
    /\ result[a][1].value.error = None

Raised(a) ==
    /\ result[a] # None
    /\ (result[a][1].exception # None \/ result[a][1].value.error # None)

\* occurrences of r among the lists returned by the scrapers 1..n that succeeded
RECURSIVE ReturnedCount(_, _)
ReturnedCount(r, n) ==
    IF n = 0 THEN 0
    ELSE ReturnedCount(r, n - 1)
         + (IF Succeeded(n) THEN Count(r, result[n][1].value.screenings) ELSE 0)

\* C1: whatever subset of the scrapers raises, collect_all_screenings does
\* not raise, and the list it returns holds exactly the records returned by
\* the scrapers that did not raise, each once; a scraper that raised
\* contributes nothing.
C1_FailureIsolation ==
    /\ pc # "raised"
    /\ CollectReturned =>
           \A r \in Catalog : Count(r, all_screenings) = ReturnedCount(r, NumScrapers)

\* collection returned although a scraper raised, with another's records
C1_Witness ==
    /\ pc = "returned"
    /\ \E a \in Scrapers : Raised(a)
    /\ \E a \in Scrapers : Succeeded(a) /\ result[a][1].value.screenings # <<>>
    /\ all_screenings # <<>>

\* scraper h's scrape() never returns while all the others have finished
OneHangs(h) ==
    /\ fut[h] = "hung"
    /\ \A a \in Scrapers \ {h} : fut[a] = "finished"

\* C2: when one scraper's scrape() never returns while all the others
\* finish, collect_all_screenings still returns (the hanging scraper counting
\* as a failed one): the collection is never stuck before its list is
\* returned.
C2_HangingScraperTimesOut ==
    (\E h \in Scrapers : OneHangs(h)) => (CollectReturned \/ ENABLED Next)

\* C3: every scraper is invoked exactly once per collection, at most
\* NumScrapers of them run at a time, collect_all_screenings returns only
\* after every task has completed, and nothing is filtered, sorted or grouped
\* before that.
C3_JoinAll ==
    /\ \A a \in Scrapers : calls[a] <= 1
    /\ Cardinality(Running) <= NumScrapers
    /\ CollectReturned => \A a \in Scrapers : calls[a] = 1 /\ fut[a] = "finished"
    /\ (filtered # None \/ sorted_screenings # None \/ grouped # None) =>
           \A a \in Scrapers : fut[a] = "finished"

\* collection returned after the scraper submitted last was consumed first
C3_Witness ==
    /\ pc = "returned"
    /\ \A a \in Scrapers : calls[a] = 1
    /\ yielded[1] = NumScrapers

\* the records scraper a contributes
Block(a) == IF result[a][1].value.error = None THEN result[a][1].value.screenings ELSE <<>>

\* the blocks of the first k futures consumed, in that order
RECURSIVE Accumulated(_)
Accumulated(k) == IF k = 0 THEN <<>> ELSE Accumulated(k - 1) \o Block(yielded[k])

\* C4: the shared list is written by the collecting thread only, one
\* scraper's list at a time: at every moment it is the concatenation of the
\* lists of the futures consumed so far, in the order they were consumed, so
\* each scraper's records form one contiguous block in the scraper's own
\* order and none is lost or duplicated.
C4_RaceFreeAccumulation == all_screenings = Accumulated(Len(yielded))

\* two non-empty blocks, consumed in the reverse of the submission order,
\* while a third scraper is still running
C4_Witness ==
    /\ pc = "as_completed"
    /\ Len(yielded) = 2
    /\ yielded[1] > yielded[2]
    /\ Block(yielded[1]) # <<>> /\ Block(yielded[2]) # <<>>
    /\ Block(yielded[1]) # Block(yielded[2])
    /\ \E a \in Scrapers : fut[a] = "running"

\* C5: when every scraper raises, collecting, filtering, sorting and
\* grouping all complete without raising and the grouping is the empty
\* mapping.
C5_AllScrapersFail ==
    (\A a \in Scrapers : Raised(a)) =>
        /\ pc # "raised"
        /\ pc = "grouped" \/ ENABLED Next
        /\ CollectReturned => all_screenings = <<>>
        /\ filtered # None => filtered[1].filtered_screenings = <<>>
        /\ sorted_screenings # None => sorted_screenings[1] = <<>>
        /\ grouped # None => grouped[1] = <<>>

\* every scraper raised and the run reached the grouping
C5_Witness ==
    /\ \A a \in Scrapers : Raised(a)
    /\ pc = "grouped"
    /\ grouped = Some(<<>>)

----------------------------------------------------------------------------
(* Properties of filter_and_deduplicate (specification SpecFilter)         *)

\* a is a subsequence of b: the elements of a occur in b in the same order
RECURSIVE IsSubsequence(_, _)
IsSubsequence(a, b) ==
    IF a = <<>> THEN TRUE
    ELSE IF b = <<>> THEN FALSE
    ELSE IF Head(a) = Head(b) THEN IsSubsequence(Tail(a), Tail(b))
    ELSE IsSubsequence(a, Tail(b))

\* the key of the claim: lowercased, trimmed title, venue and date
ClaimKey(s) == <<Strip(Lower(s.title)), Strip(Lower(s.theater)), Strip(Lower(s.date))>>

\* C6: the list filter_and_deduplicate returns holds at most one record per
\* key (lowercased-trimmed title, venue, date), and a record it holds is the
\* first record of the input with that key.
C6_DedupFirstWins ==
    filtered # None =>
        With(<<all_screenings, filtered[1].filtered_screenings,
               [k \in 1..Len(all_screenings) |-> ClaimKey(all_screenings[k])],
               [i \in 1..Len(filtered[1].filtered_screenings) |->
                   ClaimKey(filtered[1].filtered_screenings[i])]>>, LAMBDA io :
            /\ \A i, j \in 1..Len(io[2]) : i # j => io[4][i] # io[4][j]
            /\ \A i \in 1..Len(io[2]) :
                   \E k \in 1..Len(io[1]) :
                       /\ io[1][k] = io[2][i]
                       /\ \A m \in 1..(k - 1) : io[3][m] # io[4][i])

\* 'Nosferatu' at 'Film Forum' followed by its differently spelled
\* duplicate leaves only the first
C6_Witness ==
    /\ pc = "filtered"
    /\ all_screenings = <<Nosferatu, NosferatuAgain>>
    /\ filtered[1].filtered_screenings = <<Nosferatu>>
    /\ filtered[1].duplicates_removed = 1

\* C7: with the current date fixed, filter_and_deduplicate applied to its
\* own output returns the same list, same records in the same order.
C7_DedupIdempotent ==
    refiltered # None =>
        refiltered[1].filtered_screenings = filtered[1].filtered_screenings

\* the second application on a list the first one shortened by a duplicate
\* and by an excluded record
C7_Witness ==
    /\ pc = "refiltered"
    /\ all_screenings = <<Nosferatu, HeatPlain, NosferatuAgain>>
    /\ filtered[1].filtered_screenings = <<Nosferatu>>
    /\ refiltered[1].filtered_screenings = <<Nosferatu>>
    /\ refiltered[1].duplicates_removed = 0

\* the records of the (record, reason) pairs of filtered_out
ExcludedRecords(out) == [i \in 1..Len(out) |-> out[i][1]]

\* C8: every input record of filter_and_deduplicate is accounted for once,
\* as kept, as a counted duplicate or as filtered out with a recorded
\* reason: len(input) = len(returned) + duplicates_removed +
\* len(filtered_out), and the returned records keep their input order.
C8_AuditAccounting ==
    filtered # None =>
        With(filtered[1], LAMBDA f :
            /\ Len(all_screenings)
                   = Len(f.filtered_screenings) + f.duplicates_removed + Len(f.filtered_out)
            /\ IsSubsequence(f.filtered_screenings, all_screenings)
            /\ IsSubsequence(ExcludedRecords(f.filtered_out), all_screenings)
            /\ \A r \in Catalog :
                   Count(r, f.filtered_screenings) + Count(r, ExcludedRecords(f.filtered_out))
                       <= Count(r, all_screenings)
            /\ \A i \in 1..Len(f.filtered_out) :
                   /\ f.filtered_out[i][2] # ""
                   /\ ~is_worth_including(f.filtered_out[i][1], now, now).include)

\* one record kept, one counted as duplicate, one filtered out
C8_Witness ==
    /\ pc = "filtered"
    /\ all_screenings = <<Nosferatu, NosferatuAgain, HeatPlain>>
    /\ filtered[1].filtered_screenings = <<Nosferatu>>
    /\ filtered[1].duplicates_removed = 1
    /\ Len(filtered[1].filtered_out) = 1
    /\ filtered[1].filtered_out[1][1] = HeatPlain

----------------------------------------------------------------------------
(* Properties of _is_worth_including (specification SpecInclude)           *)

\* the four checks as the claims state them, for record s on day today
TicketCheck(s, today) ==
    With(parse_ticket_date(s.ticket_sale_date, today), LAMBDA d :
        d # None /\ 0 <= d[1] - today /\ d[1] - today <= 14)

NoteCheck(s) == s.special_note # ""

VenueCheck(s) ==
    \E i \in 1..Len(repertory_theaters) : Contains(repertory_theaters[i], Lower(s.theater))

KeywordCheck(s) ==
    \E i \in 1..Len(special_keywords) :
        Contains(special_keywords[i], Lower(s.title \o " " \o s.description))

\* s starts with prefix p
StartsWith(s, p) == Len(s) >= Len(p) /\ SubSeq(s, 1, Len(p)) = p

\* C9: _is_worth_including includes a record iff at least one of the four
\* checks holds (ticket sale 0..14 days from today, special note non-empty,
\* venue containing a repertory fragment, title+synopsis containing a special
\* keyword), and the reason returned is that of the first check that holds
\* in the order ticket sale, special note, repertory venue, keyword.
C9_InclusionPriorityOrder ==
    verdict # None =>
        With(<<screening[1], verdict[1]>>, LAMBDA sv :
            /\ sv[2].include <=> (\/ TicketCheck(sv[1], now) \/ NoteCheck(sv[1])
                                  \/ VenueCheck(sv[1]) \/ KeywordCheck(sv[1]))
            /\ IF TicketCheck(sv[1], now)
               THEN StartsWith(sv[2].reason, "Tickets on sale within")
               ELSE IF NoteCheck(sv[1])
               THEN sv[2].reason = "Has special note: " \o sv[1].special_note
               ELSE IF VenueCheck(sv[1])
               THEN StartsWith(sv[2].reason, "From repertory/art house theater: ")
               ELSE IF KeywordCheck(sv[1])
               THEN StartsWith(sv[2].reason, "Contains special keywords: ")
               ELSE ~sv[2].include)

\* a record for which all four checks hold has been evaluated
C9_Witness ==
    /\ pc = "evaluated"
    /\ TicketCheck(screening[1], now)
    /\ NoteCheck(screening[1])
    /\ VenueCheck(screening[1])
    /\ KeywordCheck(screening[1])
    /\ verdict[1].include
    /\ StartsWith(verdict[1].reason, "Tickets on sale within")

\* the number of days from today to the parsed ticket sale date, in 0..14
SaleInDays(s, today) ==
    With(parse_ticket_date(s.ticket_sale_date, today), LAMBDA d :
        IF d # None /\ 0 <= d[1] - today /\ d[1] - today <= TicketWindow
        THEN Some(d[1] - today) ELSE None)

TicketExplanation(s, today) ==
    IF s.ticket_sale_date = "" THEN "no ticket sale date"
    ELSE IF parse_ticket_date(s.ticket_sale_date, today) = None
    THEN "couldn't parse ticket date: " \o s.ticket_sale_date
    ELSE "ticket sale date too far: " \o s.ticket_sale_date

\* the four failed-check explanations of record s, in check order
FailedExplanations(s, today) ==
    <<TicketExplanation(s, today),
      "no special notes",
      "not from repertory theater (theater: " \o s.theater \o ")",
      "no special keywords in title/description">>

\* number of places at which sep occurs in s
Occurrences(sep, s) ==
    Cardinality({i \in 1..(Len(s) - Len(sep) + 1) : SubSeq(s, i, i + Len(sep) - 1) = sep})

\* C11: a record that fails all four checks is excluded, and the reason
\* returned for an excluded record is the concatenation of exactly four
\* failed-check explanations, one per check, in check order (ticket sale,
\* special note, repertory venue, keyword), joined by '; '.
C11_ExclusionReason ==
    verdict # None =>
        With(<<screening[1], verdict[1]>>, LAMBDA sv :
            /\ (~TicketCheck(sv[1], now) /\ ~NoteCheck(sv[1])
                    /\ ~VenueCheck(sv[1]) /\ ~KeywordCheck(sv[1])) => ~sv[2].include
            /\ ~sv[2].include =>
                   /\ sv[2].reason = Join("; ", FailedExplanations(sv[1], now))
                   /\ Occurrences("; ", sv[2].reason) = 3)

\* Scenario C: no ticket sale date, no special note, venue 'Random
\* Multiplex', no special keyword, evaluated and excluded
C11_Witness ==
    /\ pc = "evaluated"
    /\ screening[1].ticket_sale_date = ""
    /\ screening[1].special_note = ""
    /\ screening[1].theater = "Random Multiplex"
    /\ screening[1].title = "Heat" /\ screening[1].description = ""
    /\ verdict[1] = [include |-> FALSE,
                     reason  |-> "no ticket sale date; no special notes; not from repertory theater (theater: Random Multiplex); no special keywords in title/description"]

----------------------------------------------------------------------------
(* _is_worth_including step by step, with its reads of the clock           *)
(* (specification SpecClock)                                               *)

\* midnights that may pass during one evaluation
MaxMidnights == 1

\* ticket sale texts of the records evaluated step by step
ClockTexts ==
    {"", "Monday", "tuesday", "Wednesday", "THURSDAY", "this Friday", "Saturday",
     " sunday ", "today", "tomorrow", "next week", "Nov 15", "Dec 25", "TBA"}

ClockCandidates ==
    {Screening("Heat", th, "Nov 20", "", "", 5, sale, None) :
        th \in {"Random Multiplex", "Film Forum"}, sale \in ClockTexts}

InitClock ==
    /\ now \in NowDays
    /\ pc = "evaluate"
    /\ all_screenings = <<>>
    /\ screening \in {Some(c) : c \in ClockCandidates}
    /\ Idle

\* ticket_date = self._parse_ticket_date(screening.ticket_sale_date), which
\* reads datetime.now() once
ParseStep ==
    /\ pc = "evaluate"
    /\ screening[1].ticket_sale_date # ""
    /\ parse_now' = Some(now)
    /\ sale_date' = Some(parse_ticket_date(screening[1].ticket_sale_date, now))
    /\ pc' = "parsed"
    /\ UNCHANGED <<now, nsub, work_queue, fut, result, calls, yielded, all_screenings,
                   filtered, refiltered, sorted_screenings, grouped, screening, verdict,
                   resorted, elsewhere>>

\* the wall clock passes midnight between the two reads
Midnight ==
    /\ pc = "parsed"
    /\ now < parse_now[1] + MaxMidnights
    /\ now' = now + 1
    /\ UNCHANGED <<pc, nsub, work_queue, fut, result, calls, yielded, all_screenings,
                   filtered, refiltered, sorted_screenings, grouped, screening, verdict,
                   parse_now, sale_date, resorted, elsewhere>>

\* today = datetime.now() at midnight, the comparison and the later checks
DecideStep ==
    /\ pc = "parsed"
    /\ verdict' = Some(is_worth_including(screening[1], parse_now[1], now))
    /\ pc' = "evaluated"
    /\ UNCHANGED <<now, nsub, work_queue, fut, result, calls, yielded, all_screenings,
                   filtered, refiltered, sorted_screenings, grouped, screening,
                   parse_now, sale_date, resorted, elsewhere>>

\* a record without ticket sale text: the clock is not read
DecideWithoutDate ==
    /\ pc = "evaluate"
    /\ screening[1].ticket_sale_date = ""
    /\ verdict' = Some(is_worth_including(screening[1], now, now))
    /\ pc' = "evaluated"
    /\ UNCHANGED <<now, nsub, work_queue, fut, result, calls, yielded, all_screenings,
                   filtered, refiltered, sorted_screenings, grouped, screening,
                   parse_now, sale_date, resorted, elsewhere>>

NextClock == ParseStep \/ Midnight \/ DecideStep \/ DecideWithoutDate

SpecClock == InitClock /\ [][NextClock]_vars

\* C12: the (include, reason) pair _is_worth_including returns depends only
\* on the record and one value of now: whatever the instants at which the
\* clock is read during an evaluation, the pair is the one an evaluation
\* with every read on one of those dates returns.
C12_FilterDeterminism ==
    (verdict # None /\ parse_now # None) =>
        \E d \in {parse_now[1], now} :
            verdict[1] = is_worth_including(screening[1], d, d)

\* the weekdays (0 = Monday) whose names the text contains
NamedWeekdays(text) ==
    {i - 1 : i \in {j \in 1..Len(day_names) : Contains(day_names[j], Lower(text))}}

\* C20: for every weekday name and every current date, _parse_ticket_date
\* resolves the name to the next future occurrence of that weekday, between
\* 1 and 7 days after today; when today is that weekday the result is 7 days
\* later, not today.
C20_WeekdayResolution ==
    sale_date # None =>
        \A wd \in NamedWeekdays(screening[1].ticket_sale_date) :
            /\ sale_date[1] # None
            /\ Weekday(sale_date[1][1]) = wd
            /\ 1 <= sale_date[1][1] - parse_now[1]
            /\ sale_date[1][1] - parse_now[1] <= 7
            /\ Weekday(parse_now[1]) = wd => sale_date[1][1] = parse_now[1] + 7

\* 'tuesday' parsed on a Tuesday resolves to the Tuesday after
C20_Witness ==
    /\ pc = "parsed"
    /\ screening[1].ticket_sale_date = "tuesday"
    /\ Weekday(parse_now[1]) = 1
    /\ sale_date = Some(Some(parse_now[1] + 7))

----------------------------------------------------------------------------
(* sort_screenings and group_by_theater on arbitrary lists                 *)
(* (specification SpecRank)                                                *)

\* records handed to sort_screenings; tickets_on_sale is an attribute set on
\* the record after construction, None when it was never set
OnSaleZed == Screening("Alien", "Zed Cinema", "Nov 20", "", "", 3, "", Some("on_sale"))

NotYetTomorrow == Screening("Heat", "Film Forum", "Nov 20", "", "", 1, "tomorrow", Some("not_yet"))

NotYetNextWeek == Screening("Heat", "Film Forum", "Nov 21", "", "", 1, "next week", Some("not_yet"))

NotYetFar == Screening("Brazil", "Film Forum", "Nov 20", "", "", 1, "Dec 25", Some("not_yet"))

NotYetTBA == Screening("Andrei Rublev", "Film Forum", "Nov 20", "", "", 1, "TBA", Some("not_yet"))

NoStateToday == Screening("Heat", "AMC Lincoln Square", "Nov 20", "", "", 2, "today", None)

UnknownNoDate == Screening("Heat", "AMC Lincoln Square", "Nov 22", "", "", 2, "", Some("unknown"))

SoldOutToday == Screening("Aliens", "Anthology", "Nov 20", "", "", 1, "today", Some("sold_out"))

RankCatalog ==
    {OnSaleZed, NotYetTomorrow, NotYetNextWeek, NotYetFar, NotYetTBA,
     NoStateToday, UnknownNoDate, SoldOutToday}

\* every list of at most n records of the rank catalog
RankListsUpTo(n) == UNION {[1..k -> RankCatalog] : k \in 0..n}

\* the lists among them that hold no record twice
DistinctRankListsUpTo(n) ==
    {xs \in RankListsUpTo(n) : \A i, j \in 1..Len(xs) : xs[i] = xs[j] => i = j}

\* the orderings of list xs
Orderings(xs) ==
    {[i \in 1..Len(xs) |-> xs[p[i]]] :
        p \in {q \in [1..Len(xs) -> 1..Len(xs)] : \A i, j \in 1..Len(xs) : q[i] = q[j] => i = j}}

InitRank ==
    /\ now = NowFirst
    /\ pc = "filtered"
    /\ all_screenings = <<>>
    /\ screening = None
    /\ nsub = 0
    /\ work_queue = <<>>
    /\ fut = [a \in Scrapers |-> "unsubmitted"]
    /\ result = [a \in Scrapers |-> None]
    /\ calls = [a \in Scrapers |-> 0]
    /\ yielded = <<>>
    /\ \E xs \in DistinctRankListsUpTo(MaxLen) :
           filtered = Some([unique_screenings   |-> xs,
                            duplicates_removed  |-> 0,
                            filtered_screenings |-> xs,
                            filtered_out        |-> <<>>])
    /\ refiltered = None
    /\ sorted_screenings = None
    /\ grouped = None
    /\ verdict = None
    /\ parse_now = None
    /\ sale_date = None
    /\ resorted = None
    /\ OtherModulesIdle

\* sort_screenings called on the same records given in another order
Resort ==
    /\ pc = "sorted"
    /\ \E xs \in Orderings(filtered[1].filtered_screenings) :
           resorted' = Some(sort_screenings(xs, now))
    /\ pc' = "resorted"
    /\ UNCHANGED <<now, nsub, work_queue, fut, result, calls, yielded, all_screenings,
                   filtered, refiltered, sorted_screenings, grouped, screening, verdict,
                   parse_now, sale_date, elsewhere>>

NextRank == SortStep \/ Resort \/ GroupStep

SpecRank == InitRank /\ [][NextRank]_vars

\* the ticket-availability bucket of a record as the claims state it
Bucket(s) ==
    IF s.tickets_on_sale = Some("on_sale") THEN 0
    ELSE IF s.tickets_on_sale = Some("not_yet") THEN 1
    ELSE IF s.tickets_on_sale = Some("sold_out") THEN 3
    ELSE 2

\* the list sort_screenings was given
SortInput == filtered[1].filtered_screenings

\* C13: in the output of sort_screenings every on_sale record precedes every
\* not_yet record, which precedes every unknown record or record without
\* availability state, which precedes every sold_out record, whatever the
\* other fields are.
C13_RankingPrimaryKey ==
    sorted_screenings # None =>
        With(sorted_screenings[1], LAMBDA out :
            \A i, j \in 1..Len(out) : i < j => Bucket(out[i]) <= Bucket(out[j]))

\* a sold_out, a stateless and an on_sale record, given in that order, come
\* out in the opposite order although the sold_out one has the best
\* rank-weight
C13_Witness ==
    /\ pc = "sorted"
    /\ SortInput = <<SoldOutToday, NoStateToday, OnSaleZed>>
    /\ sorted_screenings[1] = <<OnSaleZed, NoStateToday, SoldOutToday>>

\* urgency of a not_yet record on day today: <<0, d>> for a sale date d days
\* away with 0 <= d <= 14, <<1, 0>> for a parseable sale date outside that
\* window, <<2, 0>> without parseable sale date
Urgency(s, today) ==
    With(parse_ticket_date(s.ticket_sale_date, today), LAMBDA d :
        IF d = None THEN <<2, 0>>
        ELSE IF 0 <= d[1] - today /\ d[1] - today <= 14 THEN <<0, d[1] - today>>
        ELSE <<1, 0>>)

\* r and s agree on bucket, rank-weight, venue and title
SameButSaleDate(r, s) ==
    /\ Bucket(r) = Bucket(s)
    /\ r.priority = s.priority
    /\ r.theater = s.theater
    /\ r.title = s.title

C15_SortPermutationInvariant ==
    resorted # None => resorted[1] = sorted_screenings[1]

\* the <<key, record>> pairs of list xs whose key is k
WithKey(pairs, k) == SelectSeq(pairs, LAMBDA p : p[1] = k)

\* C16: sort_screenings returns a permutation of its input in non-decreasing
\* order of the key (availability bucket, sale-date urgency, rank-weight,
\* venue, title), and records with identical keys keep their relative input
\* order.
C16_SortStability ==
    sorted_screenings # None =>
        With(<<Keyed(SortInput, now), Keyed(sorted_screenings[1], now)>>, LAMBDA io :
            /\ Len(io[2]) = Len(io[1])
            /\ \A i \in 1..Len(io[1]) :
                   Count(io[1][i], io[2]) = Count(io[1][i], io[1])
            /\ \A i, j \in 1..Len(io[2]) :
                   i < j => ~KeyLess(io[2][j][1], io[2][i][1])
            /\ \A i \in 1..Len(io[1]) :
                   WithKey(io[2], io[1][i][1]) = WithKey(io[1], io[1][i][1]))

\* two different records with one key, given after a record that sorts
\* last, keep their order
C16_Witness ==
    /\ pc = "sorted"
    /\ SortInput = <<SoldOutToday, UnknownNoDate, NoStateToday>>
    /\ UnknownNoDate # NoStateToday
    /\ sort_key(UnknownNoDate, now, now) = sort_key(NoStateToday, now, now)
    /\ sorted_screenings[1] = <<UnknownNoDate, NoStateToday, SoldOutToday>>

----------------------------------------------------------------------------
(* group_by_theater on arbitrary lists (specification SpecGroup)           *)

\* a venue name differing from 'Film Forum' in case only
LowerCaseVenue == Screening("Heat", "film forum", "Nov 20", "", "", 2, "", None)

GroupCatalog == RankCatalog \cup {LowerCaseVenue}

InitGroup ==
    /\ now = NowFirst
    /\ pc = "sorted"
    /\ all_screenings = <<>>
    /\ screening = None
    /\ nsub = 0
    /\ work_queue = <<>>
    /\ fut = [a \in Scrapers |-> "unsubmitted"]
    /\ result = [a \in Scrapers |-> None]
    /\ calls = [a \in Scrapers |-> 0]
    /\ yielded = <<>>
    /\ filtered = None
    /\ refiltered = None
    /\ sorted_screenings \in {Some(xs) : xs \in UNION {[1..k -> GroupCatalog] : k \in 0..MaxLen}}
    /\ grouped = None
    /\ verdict = None
    /\ parse_now = None
    /\ sale_date = None
    /\ resorted = None
    /\ OtherModulesIdle

NextGroup == GroupStep

SpecGroup == InitGroup /\ [][NextGroup]_vars

\* the list group_by_theater was given
GroupInput == sorted_screenings[1]

\* total number of records in the groups 1..n of mapping g
RECURSIVE GroupedCount(_, _)
GroupedCount(g, n) == IF n = 0 THEN 0 ELSE GroupedCount(g, n - 1) + Len(g[n][2])

\* C17: every record of the input of group_by_theater appears in exactly
\* one group of the result, the group whose key equals the record's venue
\* name exactly (case-sensitive); no record is dropped or duplicated and no
\* group is empty.
C17_GroupingCompleteness ==
    grouped # None =>
        With(<<GroupInput, grouped[1]>>, LAMBDA ig :
            /\ \A i, j \in 1..Len(ig[2]) : ig[2][i][1] = ig[2][j][1] => i = j
            /\ \A i \in 1..Len(ig[2]) :
                   /\ ig[2][i][2] # <<>>
                   /\ \A k \in 1..Len(ig[2][i][2]) : ig[2][i][2][k].theater = ig[2][i][1]
            /\ GroupedCount(ig[2], Len(ig[2])) = Len(ig[1])
            /\ \A k \in 1..Len(ig[1]) :
                   \E i \in 1..Len(ig[2]) :
                       /\ ig[2][i][1] = ig[1][k].theater
                       /\ Count(ig[1][k], ig[2][i][2]) = Count(ig[1][k], ig[1]))

\* 'Film Forum' and 'film forum' are two groups; the record given twice is
\* twice in its group
C17_Witness ==
    /\ pc = "grouped"
    /\ GroupInput = <<NotYetTomorrow, LowerCaseVenue, NotYetTomorrow>>
    /\ grouped[1] = <<<<"Film Forum", <<NotYetTomorrow, NotYetTomorrow>>>>,
                      <<"film forum", <<LowerCaseVenue>>>>>>

\* C19: within each group returned by group_by_theater the records are in
\* the same relative order as in the input list, so grouping the output of
\* sort_screenings leaves every venue's records in ranking order.
C19_PerVenueOrder ==
    grouped # None =>
        With(<<GroupInput, grouped[1]>>, LAMBDA ig :
            \A i \in 1..Len(ig[2]) :
                ig[2][i][2] = SelectSeq(ig[1], LAMBDA s : s.theater = ig[2][i][1]))

\* the two 'Film Forum' records stay in input order, the less urgent first,
\* around a record of another venue
C19_Witness ==
    /\ pc = "grouped"
    /\ GroupInput = <<NotYetNextWeek, OnSaleZed, NotYetTomorrow>>
    /\ grouped[1] = <<<<"Film Forum", <<NotYetNextWeek, NotYetTomorrow>>>>,
                      <<"Zed Cinema", <<OnSaleZed>>>>>>

\* C18: in the mapping group_by_theater returns for the output of
\* sort_screenings the venues are ordered by the minimum rank-weight of
\* their records, lower first, and venues with equal minimum rank-weight are
\* ordered by venue name.
C18_GroupOrder ==
    (grouped # None /\ filtered # None) =>
        With(grouped[1], LAMBDA g :
            \A i, j \in 1..Len(g) :
                i < j =>
                    \/ MinPriority(g[i][2]) < MinPriority(g[j][2])
                    \/ /\ MinPriority(g[i][2]) = MinPriority(g[j][2])
                       /\ StrLess(g[i][1], g[j][1]))

----------------------------------------------------------------------------
(* _parse_ticket_date over month and day texts, followed by the inclusion  *)
(* test and the sort, all at one clock date (specification SpecParse)      *)

\* current dates beyond NowDays: year ends, a leap day, the years around it
ParseDays ==
    NowDays \cup {ToOrdinal(2024, 2, 28), ToOrdinal(2025, 12, 31), ToOrdinal(2026, 1, 1),
                  ToOrdinal(2027, 3, 1), ToOrdinal(2028, 2, 29)}

DayTexts == {"1", "15", "29", "31"}

\* every key of month_names followed by a day number
MonthDayTexts == {m \o " " \o d : m \in DOMAIN month_names, d \in DayTexts}

\* texts the parser turns into no date, and texts of the other branches
OtherTexts ==
    {"", "TBA", "soon", "foo 12", "feb 30", "nov 0", "nov", "15 nov", "Nov 15",
     "  December 25 ", "sept 5", "Monday", "sunday", "today", "tomorrow",
     "this week", "next week"}

ParseTexts == MonthDayTexts \cup OtherTexts

ParseCandidates ==
    {Screening("Heat", "Random Multiplex", "Nov 20", "", "", 5, sale, Some("not_yet")) :
        sale \in ParseTexts}

InitParse ==
    /\ now \in ParseDays
    /\ pc = "evaluate"
    /\ all_screenings = <<>>
    /\ screening \in {Some(c) : c \in ParseCandidates}
    /\ Idle

\* sort_screenings on a list holding the record and one other record
RankStep ==
    /\ pc = "evaluated"
    /\ sorted_screenings' = Some(sort_screenings(<<screening[1], NotYetFar>>, now))
    /\ pc' = "ranked"
    /\ UNCHANGED <<now, nsub, work_queue, fut, result, calls, yielded, all_screenings,
                   filtered, refiltered, grouped, screening, verdict,
                   parse_now, sale_date, resorted, elsewhere>>

NextParse == ParseStep \/ DecideStep \/ DecideWithoutDate \/ RankStep

SpecParse == InitParse /\ [][NextParse]_vars

\* the year a month and day resolve to: the year of the clock date, or the
\* next one when the month and day lie before the clock date
ResolvedYear(m, d, clock) ==
    IF 100 * m + d < 100 * MonthOf(clock) + DayOf(clock)
    THEN YearOf(clock) + 1 ELSE YearOf(clock)

\* C21: for every month name, short or full, and every day that exists in
\* the month of the resolved year, _parse_ticket_date returns that month and
\* day in the current year when it is today or later and in the next year
\* when it lies before today; the date returned is never before today.
C21_MonthDayResolution ==
    \A name \in DOMAIN month_names : \A d \in 1..31 :
        (/\ sale_date # None
         /\ screening[1].ticket_sale_date = name \o " " \o ToString(d)
         /\ d <= DaysInMonth(ResolvedYear(month_names[name], d, parse_now[1]),
                             month_names[name]))
        => /\ sale_date[1] = Some(ToOrdinal(ResolvedYear(month_names[name], d, parse_now[1]),
                                            month_names[name], d))
           /\ sale_date[1][1] >= parse_now[1]

\* "october 31" read on 2025-11-01 is 2026-10-31
C21_Witness ==
    /\ sale_date = Some(Some(ToOrdinal(2026, 10, 31)))
    /\ parse_now = Some(ToOrdinal(2025, 11, 1))
    /\ screening[1].ticket_sale_date = "october 31"

\* the parsed sale date of the record under evaluation lies d days ahead
SaleAhead(d) == sale_date # None /\ sale_date[1] # None /\ sale_date[1][1] - now = d

\* C30: with every clock read on one date, a date _parse_ticket_date returns
\* is never before that date, so days-until-sale is never negative; a record
\* with a parsed date fails the imminent-sale check of _is_worth_including,
\* and is ranked behind a record whose sale is far off, exactly when its date
\* is more than 14 days ahead.
C30_SaleDateNotInPast ==
    (sale_date # None /\ sale_date[1] # None) =>
        /\ sale_date[1][1] >= now
        /\ verdict # None =>
               (verdict[1].include <=> sale_date[1][1] - now <= TicketWindow)
        /\ sorted_screenings # None =>
               (sorted_screenings[1][1] = screening[1]
                    <=> sale_date[1][1] - now <= TicketWindow)

\* "dec 31" read on 2025-11-01: 60 days ahead, rejected and ranked second
C30_Witness ==
    /\ SaleAhead(60)
    /\ now = ToOrdinal(2025, 11, 1)
    /\ verdict # None /\ ~verdict[1].include
    /\ sorted_screenings = Some(<<NotYetFar, screening[1]>>)

\* a value _parse_ticket_date returns: no date, or one date
IsDateOrNone(x) == x = None \/ (Len(x) = 1 /\ x[1] \in Int)

\* texts of ParseTexts that name no date
UnparseableTexts == {"TBA", "soon", "foo 12", "feb 30", "nov 0", "nov", "15 nov"}

\* C22: for every text, _parse_ticket_date returns a date or no date and
\* never raises: empty text, unknown words, an unknown month and a month with
\* a day that does not exist give no date; _is_worth_including and
\* sort_screenings then return normally on the record carrying the text.
C22_UnparseableIsNotAnError ==
    /\ parse_ticket_date("", now) = None
    /\ sale_date # None =>
           /\ IsDateOrNone(sale_date[1])
           /\ screening[1].ticket_sale_date \in UnparseableTexts => sale_date[1] = None
    /\ pc \in {"evaluate", "parsed", "evaluated"} => ENABLED NextParse
    /\ verdict # None => verdict[1].include \in BOOLEAN
    /\ sorted_screenings # None =>
           sorted_screenings[1] \in {<<screening[1], NotYetFar>>, <<NotYetFar, screening[1]>>}

\* "feb 30": no date, the record is rejected with the text in the reason and
\* is sorted
C22_Witness ==
    /\ screening[1].ticket_sale_date = "feb 30"
    /\ sale_date = Some(None)
    /\ verdict # None /\ ~verdict[1].include
    /\ Contains("couldn't parse ticket date: feb 30", verdict[1].reason)
    /\ sorted_screenings = Some(<<NotYetFar, screening[1]>>)

----------------------------------------------------------------------------
(* main, steps 2 and 3, on every short list of records                     *)
(* (specification SpecPipeline)                                            *)

InitPipeline ==
    /\ now = NowFirst
    /\ pc = "returned"
    /\ all_screenings \in ListsUpTo(MaxLen)
    /\ screening = None
    /\ Idle

NextPipeline == FilterStep \/ SortStep \/ GroupStep

SpecPipeline == InitPipeline /\ [][NextPipeline]_vars

\* the records of a list, and of a mapping from venue to list
RecordsOf(xs) == {xs[i] : i \in 1..Len(xs)}

GroupedRecords(g) == UNION {RecordsOf(g[i][2]) : i \in 1..Len(g)}

\* C23: filter_and_deduplicate, sort_screenings and group_by_theater leave
\* their input list, its order and every field of its records as they were;
\* the lists and the mapping they build hold records of the input, unaltered.
C23_RecordsReadOnly ==
    [][/\ all_screenings' = all_screenings
       /\ filtered # None => filtered' = filtered
       /\ sorted_screenings # None => sorted_screenings' = sorted_screenings
       /\ filtered' # None =>
              /\ RecordsOf(filtered'[1].unique_screenings) \subseteq RecordsOf(all_screenings)
              /\ RecordsOf(filtered'[1].filtered_screenings) \subseteq RecordsOf(all_screenings)
       /\ sorted_screenings' # None =>
              RecordsOf(sorted_screenings'[1]) = RecordsOf(filtered'[1].filtered_screenings)
       /\ grouped' # None =>
              GroupedRecords(grouped'[1]) = RecordsOf(sorted_screenings'[1])]_vars

\* the sort reordered its input and the grouping is built: the input lists
\* are still in their order
C23_Witness ==
    /\ pc = "grouped"
    /\ all_screenings = <<HeatWithNote, Alien70mm, Nosferatu>>
    /\ filtered[1].filtered_screenings = <<HeatWithNote, Alien70mm, Nosferatu>>
    /\ sorted_screenings = Some(<<Nosferatu, Alien70mm, HeatWithNote>>)
    /\ Len(grouped[1]) = 3

----------------------------------------------------------------------------
(* BaseScraper.fetch_page (src/scrapers/base.py), one request at a time    *)
(* (specification SpecFetch)                                               *)

\* largest retries argument
MaxRetries == 3

\* pages a successful request is parsed into
Pages == {"<html>Film Forum</html>", "<html>Metrograph</html>"}

\* exceptions session.get or raise_for_status raise
RequestErrors == {"ConnectionError", "HTTPError 404", "HTTPError 503", "ReadTimeout"}

\* 2 ** n
RECURSIVE Pow2(_)
Pow2(n) == IF n <= 0 THEN 1 ELSE 2 * Pow2(n - 1)

InitFetch ==
    /\ now = NowFirst
    /\ pc = "fetch"
    /\ all_screenings = <<>>
    /\ screening = None
    /\ AggregatorIdle
    /\ EmailIdle /\ ClassifierIdle /\ AwardsIdle
    /\ retries \in 0..MaxRetries
    /\ attempt = 0
    /\ responses = <<>>
    /\ slept = <<>>
    /\ fetched = None

\* the request of this attempt succeeds: the parsed page is returned
RequestSucceeds ==
    /\ pc = "fetch"
    /\ attempt < retries
    /\ \E page \in Pages :
           /\ responses' = Append(responses, page)
           /\ fetched' = Some(Some(page))
    /\ pc' = "fetch_returned"
    /\ UNCHANGED <<now, aggregator_state, email_state, classifier_state, awards_state,
                   retries, attempt, slept>>

\* variant of the handler: the exception of the last attempt is raised again
RequestFailsReraising ==
    /\ pc = "fetch"
    /\ attempt < retries
    /\ \E e \in RequestErrors : responses' = Append(responses, e)
    /\ IF attempt = retries - 1
       THEN /\ pc' = "fetch_raised"
            /\ UNCHANGED <<attempt, slept, fetched>>
       ELSE /\ slept' = Append(slept, Pow2(attempt))
            /\ attempt' = attempt + 1
            /\ UNCHANGED <<pc, fetched>>
    /\ UNCHANGED <<now, aggregator_state, email_state, classifier_state, awards_state,
                   retries>>

\* the request of this attempt raises: None after the last attempt, else
\* time.sleep(2 ** attempt) and the next attempt
RequestFails ==
    /\ pc = "fetch"
    /\ attempt < retries
    /\ \E e \in RequestErrors : responses' = Append(responses, e)
    /\ IF attempt = retries - 1
       THEN /\ fetched' = Some(None)
            /\ pc' = "fetch_returned"
            /\ UNCHANGED <<attempt, slept>>
       ELSE /\ slept' = Append(slept, Pow2(attempt))
            /\ attempt' = attempt + 1
            /\ UNCHANGED <<pc, fetched>>
    /\ UNCHANGED <<now, aggregator_state, email_state, classifier_state, awards_state,
                   retries>>

\* range(retries) is empty: the return None after the loop
LoopEnds ==
    /\ pc = "fetch"
    /\ attempt >= retries
    /\ fetched' = Some(None)
    /\ pc' = "fetch_returned"
    /\ UNCHANGED <<now, aggregator_state, email_state, classifier_state, awards_state,
                   retries, attempt, responses, slept>>

NextFetch == RequestSucceeds \/ RequestFails \/ LoopEnds

SpecFetch == InitFetch /\ [][NextFetch]_vars

\* the requests made so far that failed
FailedRequests == {i \in 1..Len(responses) : responses[i] \in RequestErrors}

\* the failed attempts a sleep follows: all but the last of the retries
SleepsDue ==
    IF Cardinality(FailedRequests) = retries /\ retries > 0
    THEN retries - 1 ELSE Cardinality(FailedRequests)

\* C29: fetch_page(url, retries), retries >= 0, makes at most retries
\* requests; only the last request made can have succeeded and its page is
\* the value returned; it has slept 2^attempt seconds after every failed
\* attempt except the last of the retries; it returns None exactly when
\* all retries requests failed; it never raises.
C29_FetchRetry ==
    /\ Len(responses) <= retries
    /\ \A i \in 1..Len(responses) :
           responses[i] \in Pages =>
               i = Len(responses) /\ fetched = Some(Some(responses[i]))
    /\ slept = [i \in 1..SleepsDue |-> Pow2(i - 1)]
    /\ fetched # None =>
           /\ pc = "fetch_returned"
           /\ fetched[1] = None <=> Cardinality(FailedRequests) = retries
           /\ fetched[1] # None => fetched[1][1] \in Pages
    /\ pc \in {"fetch", "fetch_returned"}
    /\ pc = "fetch" => ENABLED NextFetch

\* two failures, sleeps of 1 and 2 seconds, then the page of the third request
C29_Witness ==
    /\ retries = 3
    /\ responses = <<"ConnectionError", "HTTPError 503", "<html>Film Forum</html>">>
    /\ slept = <<1, 2>>
    /\ fetched = Some(Some("<html>Film Forum</html>"))

----------------------------------------------------------------------------
(* EventClassifier (src/event_classifier.py)                               *)
(* (specification SpecClassify)                                            *)

\* EventClassifier.KEYWORDS, in the order of the dict
KEYWORDS ==
    << <<"Q&A", <<"q&a", "q & a", "q and a", "question and answer", "questions and answers">> >>,
       <<"Director Appearance",
         <<"with director", "director in person", "director present",
           "director appearance", "director attending", "director will be",
           "followed by director", "introduced by director">> >>,
       <<"Filmmaker Appearance",
         <<"filmmaker", "filmmakers", "with filmmaker", "filmmaker in person",
           "filmmaker present", "filmmaker appearance", "filmmaker attending",
           "followed by filmmaker", "introduced by filmmaker">> >>,
       <<"Special Guest",
         <<"cast", "actor", "actress", "producer", "cinematographer",
           "in person", "guest appearance", "special guest", "guests in attendance">> >>,
       <<"Premiere",
         <<"premiere", "world premiere", "us premiere", "nyc premiere",
           "new york premiere", "theatrical premiere">> >>,
       <<"Opening Night", <<"opening night", "opening film", "opens">> >>,
       <<"Closing Night", <<"closing night", "closing film">> >>,
       <<"Advance Screening",
         <<"advance screening", "early screening", "early access",
           "pre-release", "before release", "first look">> >>,
       <<"Sneak Preview",
         <<"sneak preview", "sneak peek", "preview screening",
           "special preview", "advanced preview">> >>,
       <<"IMAX", <<"imax">> >>,
       <<"Dolby", <<"dolby", "dolby cinema", "dolby atmos", "dolby vision">> >>,
       <<"70mm", <<"70mm", "70 mm">> >>,
       <<"35mm", <<"35mm", "35 mm">> >>,
       <<"16mm", <<"16mm", "16 mm">> >>,
       <<"Restoration",
         <<"restoration", "restored", "newly restored", "new restoration",
           "4k restoration", "4k", "2k restoration", "remastered">> >>,
       <<"Anniversary",
         <<"anniversary", "th anniversary", "year anniversary",
           "years later", "celebrating", "milestone">> >>,
       <<"Festival",
         <<"festival", "film festival", "fest", "nyff",
           "new york film festival", "tribeca", "sundance">> >>,
       <<"Special Series",
         <<"series", "retrospective", "tribute", "homage",
           "sidebar", "special program", "curated by">> >>,
       <<"Repertory",
         <<"repertory", "revival", "classic screening", "classics",
           "cult classic", "midnight movie">> >>,
       <<"Exclusive", <<"exclusive", "only at", "exclusive engagement">> >>,
       <<"Limited Release", <<"limited release", "limited engagement", "limited run">> >>,
       <<"Fan Event",
         <<"fan event", "fan screening", "marathon", "double feature",
           "triple feature", "all night", "all-night">> >>,
       <<"Special Event",
         <<"special screening", "special event", "special presentation",
           "gala", "benefit", "fundraiser">> >> >>

\* _has_keyword: any(keyword in text for keyword in keywords)
has_keyword(text, keywords) ==
    \E i \in 1..Len(keywords) : Contains(keywords[i], text)

specific_event_tags ==
    {"Q&A", "Director Appearance", "Filmmaker Appearance", "Premiere",
     "Opening Night", "Closing Night", "Advance Screening", "Sneak Preview",
     "Festival", "Fan Event"}

\* variant of _refine_tags: "Special Event" is discarded whenever it is present
refine_tags_discarding(found, text) == found \ {"Special Event"}

\* _refine_tags
refine_tags(found, text) ==
    IF "Special Event" \in found /\ found \cap specific_event_tags # {}
    THEN found \ {"Special Event"}
    ELSE found

\* sorted(list(S)) for a set of strings
RECURSIVE SortedStrings(_)
SortedStrings(S) ==
    IF S = {} THEN <<>>
    ELSE With(CHOOSE x \in S : \A y \in S \ {x} : StrLess(x, y),
              LAMBDA least : <<least>> \o SortedStrings(S \ {least}))

\* the f-string of classify, lowercased
combined_text(text, title, description) ==
    Lower(text \o " " \o title \o " " \o description)

classify(text, title, description) ==
    With(combined_text(text, title, description), LAMBDA combined :
    With({KEYWORDS[k][1] : k \in {j \in 1..Len(KEYWORDS) : has_keyword(combined, KEYWORDS[j][2])}},
         LAMBDA found : SortedStrings(refine_tags(found, combined))))

is_special(text, title, description) == Len(classify(text, title, description)) > 0

\* texts of the repository's tests and a few more
EventTexts ==
    {"Special screening with Q&A with director John Smith",
     "Opening night premiere with filmmaker in person",
     "Sneak preview screening - IMAX",
     "70mm restoration for the 25th anniversary",
     "Advance screening in Dolby Cinema",
     "New 4K restoration premiere",
     "Festival screening with Q and A",
     "Triple feature marathon in 35mm",
     "Director in person for opening night",
     "Sneak peek advance screening",
     "Regular screening at 7pm",
     "Q&A with director",
     "IMAX screening",
     "Standard showing",
     "Sneak preview tonight",
     "With filmmaker in person",
     "",
     "Special screening",
     "GALA BENEFIT",
     "A very special"}

EventTitles == {"", "Event Horizon", "Heat"}

EventDescriptions == {"", "Newly restored print"}

InitClassify ==
    /\ now = NowFirst
    /\ pc = "classify"
    /\ all_screenings = <<>>
    /\ screening = None
    /\ AggregatorIdle
    /\ EmailIdle /\ FetchIdle /\ AwardsIdle
    /\ event \in {Some([text |-> t, title |-> ti, description |-> d]) :
                      t \in EventTexts, ti \in EventTitles, d \in EventDescriptions}
    /\ tags = None
    /\ special = None

\* EventClassifier.classify(text, title, description)
Classify ==
    /\ pc = "classify"
    /\ tags = None
    /\ tags' = Some(classify(event[1].text, event[1].title, event[1].description))
    /\ UNCHANGED <<now, pc, aggregator_state, email_state, fetch_state, awards_state,
                   event, special>>

\* EventClassifier.is_special(text, title, description)
IsSpecial ==
    /\ pc = "classify"
    /\ special = None
    /\ special' = Some(is_special(event[1].text, event[1].title, event[1].description))
    /\ UNCHANGED <<now, pc, aggregator_state, email_state, fetch_state, awards_state,
                   event, tags>>

NextClassify == Classify \/ IsSpecial

SpecClassify == InitClassify /\ [][NextClassify]_vars

\* the tags of KEYWORDS one of whose keywords occurs in the text c
TagsWithHit(c) ==
    {KEYWORDS[k][1] : k \in {j \in 1..Len(KEYWORDS) :
        \E i \in 1..Len(KEYWORDS[j][2]) : Contains(KEYWORDS[j][2][i], c)}}

\* C28: classify returns a strictly increasing list (sorted, no duplicate)
\* holding exactly the tags one of whose keywords occurs in the lowercased
\* text + " " + title + " " + description, without "Special Event" when one
\* of the ten specific event tags is among them; is_special is True exactly
\* when that list is not empty.
C28_EventClassification ==
    event # None =>
        With(TagsWithHit(Lower(event[1].text \o " " \o event[1].title \o " "
                               \o event[1].description)),
             LAMBDA hit :
                 /\ tags # None =>
                        /\ \A i \in 1..(Len(tags[1]) - 1) : StrLess(tags[1][i], tags[1][i + 1])
                        /\ {tags[1][i] : i \in 1..Len(tags[1])} =
                               IF hit \cap specific_event_tags # {}
                               THEN hit \ {"Special Event"} ELSE hit
                 /\ special # None => (special[1] <=> hit # {})
                 /\ (special # None /\ tags # None) => (special[1] <=> tags[1] # <<>>))

\* "Special screening" alone keeps Special Event; the record is special
C28_Witness ==
    /\ event = Some([text |-> "Special screening", title |-> "", description |-> ""])
    /\ tags = Some(<<"Special Event">>)
    /\ special = Some(TRUE)

\* with a Q&A the generic tag is dropped and the list is sorted
C28_WitnessSpecific ==
    /\ event = Some([text |-> "Special screening with Q&A with director John Smith",
                     title |-> "", description |-> ""])
    /\ tags = Some(<<"Director Appearance", "Q&A">>)

----------------------------------------------------------------------------
(* get_live_awards_data (src/config.py) and AwardsUpdater                  *)
(* (src/awards_updater.py), call by call (specification SpecAwards)        *)

\* AwardsUpdater.cache_max_age_days
cache_max_age_days == 7

\* FESTIVAL_FILMS_2024_2025 (its keys) and OSCAR_CONTENDERS_2025, shortened
FESTIVAL_FILMS_2024_2025 == {"anora", "the substance"}

OSCAR_CONTENDERS_2025 == {"anora", "the brutalist"}

\* what the two prediction pages yield; nothing when a fetch fails, which
\* the fetch methods catch
PredictionSets == {{}, {"hamnet"}, {"hamnet", "sinners"}}

\* a cache file that is not valid JSON
Corrupt == [valid |-> FALSE]

\* the cache file update_cache writes: merge_with_existing and the union of
\* the contenders (a list built from a set, so without a defined order)
CacheWritten(predictions, clock) ==
    [valid            |-> TRUE,
     last_updated     |-> clock,
     festival_films   |-> FESTIVAL_FILMS_2024_2025 \cup predictions,
     oscar_contenders |-> OSCAR_CONTENDERS_2025 \cup predictions]

\* ages, in days, of the cache files a call may find
CacheAges == {0, 3, 6, 7, 8, 14}

\* the cache files a call may find: none, an unreadable one, or one written
\* by an earlier update
CacheFiles ==
    {None, Some(Corrupt)}
        \cup {Some(CacheWritten({"sinners"}, NowFirst - a)) : a \in CacheAges}

\* AwardsUpdater.should_update; timestamps are whole days
should_update(file, clock) ==
    IF file = None THEN TRUE
    ELSE IF ~file[1].valid THEN TRUE
    ELSE clock - file[1].last_updated >= cache_max_age_days

\* the ways update_cache ends: the file is written; open() raises and the
\* file is as before; json.dump raises and leaves a truncated file
UpdateOutcomes ==
    {[kind |-> "written", predictions |-> p] : p \in PredictionSets}
        \cup {[kind |-> "open_raises", predictions |-> {}],
              [kind |-> "dump_raises", predictions |-> {}]}

\* AwardsUpdater.update_cache: the file afterwards
FileAfterUpdate(file, o, clock) ==
    IF o.kind = "written" THEN Some(CacheWritten(o.predictions, clock))
    ELSE IF o.kind = "dump_raises" THEN Some(Corrupt)
    ELSE file

\* the hardcoded pair
Hardcoded ==
    [festival_films |-> FESTIVAL_FILMS_2024_2025, oscar_contenders |-> OSCAR_CONTENDERS_2025]

\* variant of the end of get_awards_data: the hardcoded data is returned
\* whenever the file is not fresh
AwardsFromStrict(file, clock) ==
    IF should_update(file, clock) THEN Hardcoded
    ELSE [festival_films   |-> file[1].festival_films,
          oscar_contenders |-> file[1].oscar_contenders]

\* load_cache and the end of get_awards_data: the hardcoded data when the
\* file is missing or unreadable, else what the file holds
AwardsFrom(file, clock) ==
    IF file = None THEN Hardcoded
    ELSE IF ~file[1].valid THEN Hardcoded
    ELSE [festival_films   |-> file[1].festival_films,
          oscar_contenders |-> file[1].oscar_contenders]

InitAwards ==
    /\ now = NowFirst
    /\ pc = "awards"
    /\ all_screenings = <<>>
    /\ screening = None
    /\ AggregatorIdle
    /\ EmailIdle /\ FetchIdle /\ ClassifierIdle
    /\ cache_file \in CacheFiles
    /\ use_cache \in BOOLEAN
    /\ fetch_count = 0
    /\ update_returns = <<>>
    /\ awards_data = None

\* AwardsUpdater(): os.makedirs succeeds
Construct ==
    /\ pc = "awards"
    /\ pc' = "awards_check"
    /\ UNCHANGED <<now, aggregator_state, email_state, fetch_state, classifier_state,
                   awards_state>>

\* AwardsUpdater(): os.makedirs raises, which it can only do when the
\* directory, and so the cache file, does not exist; the handler of
\* get_live_awards_data returns the hardcoded data
ConstructRaises ==
    /\ pc = "awards"
    /\ cache_file = None
    /\ awards_data' = Some(Hardcoded)
    /\ pc' = "awards_returned"
    /\ UNCHANGED <<now, aggregator_state, email_state, fetch_state, classifier_state,
                   cache_file, use_cache, fetch_count, update_returns>>

\* one call of update_cache
UpdateCache(o) ==
    /\ fetch_count' = fetch_count + 1
    /\ cache_file' = FileAfterUpdate(cache_file, o, now)
    /\ update_returns' = Append(update_returns, o.kind = "written")

\* get_live_awards_data: not use_cache or should_update(), so update_cache()
UpdateFirst ==
    /\ pc = "awards_check"
    /\ ~use_cache \/ should_update(cache_file, now)
    /\ \E o \in UpdateOutcomes : UpdateCache(o)
    /\ pc' = "awards_get"
    /\ UNCHANGED <<now, aggregator_state, email_state, fetch_state, classifier_state,
                   use_cache, awards_data>>

\* get_live_awards_data: the cache is used as it is
NoUpdate ==
    /\ pc = "awards_check"
    /\ ~(~use_cache \/ should_update(cache_file, now))
    /\ pc' = "awards_get"
    /\ UNCHANGED <<now, aggregator_state, email_state, fetch_state, classifier_state,
                   awards_state>>

\* get_awards_data: should_update() again, so update_cache() again
UpdateAgain ==
    /\ pc = "awards_get"
    /\ should_update(cache_file, now)
    /\ \E o \in UpdateOutcomes : UpdateCache(o)
    /\ pc' = "awards_load"
    /\ UNCHANGED <<now, aggregator_state, email_state, fetch_state, classifier_state,
                   use_cache, awards_data>>

\* get_awards_data: "Using cached data"
UseCached ==
    /\ pc = "awards_get"
    /\ ~should_update(cache_file, now)
    /\ pc' = "awards_load"
    /\ UNCHANGED <<now, aggregator_state, email_state, fetch_state, classifier_state,
                   awards_state>>

\* get_awards_data: load_cache and the return; get_live_awards_data returns
\* the pair
LoadAndReturn ==
    /\ pc = "awards_load"
    /\ awards_data' = Some(AwardsFrom(cache_file, now))
    /\ pc' = "awards_returned"
    /\ UNCHANGED <<now, aggregator_state, email_state, fetch_state, classifier_state,
                   cache_file, use_cache, fetch_count, update_returns>>

NextAwards ==
    \/ Construct
    \/ ConstructRaises
    \/ UpdateFirst
    \/ NoUpdate
    \/ UpdateAgain
    \/ UseCached
    \/ LoadAndReturn

SpecAwards == InitAwards /\ [][NextAwards]_vars

\* update_cache was called and returned False every time
RefreshFailed ==
    /\ update_returns # <<>>
    /\ \A i \in 1..Len(update_returns) : ~update_returns[i]

\* the cache file holds data written by an update
Readable == cache_file # None /\ cache_file[1].valid

Fresh == Readable /\ ~should_update(cache_file, now)

\* the data of the readable cache file
Cached ==
    [festival_films   |-> cache_file[1].festival_films,
     oscar_contenders |-> cache_file[1].oscar_contenders]

----------------------------------------------------------------------------
(* EmailFormatter (src/email_formatter.py).  The body is kept as the list  *)
(* html_parts that _create_html_body joins with newlines; each part is a   *)
(* record naming the fragment and the texts it carries, in place of the    *)
(* markup.  (specification SpecEmail)                                      *)

\* get_week_range (src/config.py): next Monday, a week ahead when today is
\* a Monday, and the Sunday after it
get_week_range(clock) ==
    With(IF 0 - Weekday(clock) <= 0 THEN 7 - Weekday(clock) ELSE 0 - Weekday(clock),
         LAMBDA days_ahead : [week_start |-> clock + days_ahead,
                              week_end   |-> clock + days_ahead + 6])

MonthFullNames ==
    <<"January", "February", "March", "April", "May", "June", "July",
      "August", "September", "October", "November", "December">>

\* strftime('%B %d')
StrfMonthDay(d) ==
    MonthFullNames[MonthOf(d)] \o " "
        \o (IF DayOf(d) < 10 THEN "0" ELSE "") \o ToString(DayOf(d))

\* _create_subject
create_subject(clock) ==
    With(get_week_range(clock), LAMBDA week :
        "NYC Special Screenings: " \o StrfMonthDay(week.week_start)
            \o " - " \o StrfMonthDay(week.week_end))

DayNamesTitle ==
    <<"Monday", "Tuesday", "Wednesday", "Thursday", "Friday", "Saturday", "Sunday">>

\* _parse_day_name: None, or <<day name>>
parse_day_name(date_str, week_start) ==
    IF date_str = "" THEN None
    ELSE With(Lower(Strip(date_str)), LAMBDA s :
         With(FirstDayName(s), LAMBDA dn :
             IF dn # None THEN Some(DayNamesTitle[dn[1] + 1])
             ELSE With(MonthDayMatch(s), LAMBDA m :
                  IF m = None THEN None
                  ELSE With(MonthLookup(m[1].month_str), LAMBDA month :
                       IF month = None THEN None
                       ELSE With(MakeDate(IF month[1] < MonthOf(week_start)
                                               /\ MonthOf(week_start) >= 11
                                          THEN YearOf(week_start) + 1
                                          ELSE YearOf(week_start),
                                          month[1], m[1].day),
                                 LAMBDA dt : IF dt = None THEN None
                                             ELSE Some(DayNamesTitle[Weekday(dt[1]) + 1]))))))

\* the tasks one screening adds, in order: <<day name, task, theater, priority>>
TasksOf(theater, s, week_start) ==
    (IF s.ticket_sale_date # ""
     THEN With(parse_day_name(s.ticket_sale_date, week_start), LAMBDA day :
              IF day = None THEN <<>>
              ELSE << <<day[1], "Tickets go on sale for " \o s.title, theater, 0>> >>)
     ELSE <<>>)
    \o
    (IF s.date # "" /\ s.special_note # ""
     THEN With(parse_day_name(s.date, week_start), LAMBDA day :
              IF day = None THEN <<>>
              ELSE << <<day[1], s.title \o " screening", theater, 1>> >>)
     ELSE <<>>)

RECURSIVE TasksOfList(_, _, _)
TasksOfList(theater, screenings, week_start) ==
    IF screenings = <<>> THEN <<>>
    ELSE TasksOf(theater, Head(screenings), week_start)
             \o TasksOfList(theater, Tail(screenings), week_start)

\* every task of the grouping, in the order the loops add them
RECURSIVE AllTasks(_, _)
AllTasks(g, week_start) ==
    IF g = <<>> THEN <<>>
    ELSE TasksOfList(g[1][1], g[1][2], week_start) \o AllTasks(Tail(g), week_start)

\* the tasks of one day, ticket sales (priority 0) first; sorted() is stable
TasksOn(day, tasks) ==
    SelectSeq(tasks, LAMBDA t : t[1] = day /\ t[4] = 0)
        \o SelectSeq(tasks, LAMBDA t : t[1] = day /\ t[4] = 1)

\* variant of _generate_daily_tasks: the calendar heading is produced even
\* when there is nothing to list
generate_daily_tasks_always(g, week_start) ==
    With(AllTasks(g, week_start), LAMBDA tasks :
        Some([kind  |-> "daily-tasks-section",
              title |-> "Ticket Release Calendar",
              days  |-> SelectSeq([i \in 1..7 |-> <<DayNamesTitle[i], TasksOn(DayNamesTitle[i], tasks)>>],
                                  LAMBDA d : d[2] # <<>>)]))

\* _generate_daily_tasks: None for the empty string, else <<the section>>
generate_daily_tasks(g, week_start) ==
    IF g = <<>> THEN None
    ELSE With(AllTasks(g, week_start), LAMBDA tasks :
         IF tasks = <<>> THEN None
         ELSE Some([kind  |-> "daily-tasks-section",
                    title |-> "Ticket Release Calendar",
                    days  |-> SelectSeq([i \in 1..7 |-> <<DayNamesTitle[i], TasksOn(DayNamesTitle[i], tasks)>>],
                                        LAMBDA d : d[2] # <<>>)]))

\* _no_screenings_message
no_screenings_message ==
    [kind |-> "message",
     text |-> "No special screenings found for this week. Check back next Monday!"]

\* _format_theater_section: the venue heading and its screenings, or the
\* "No notable screenings selected this week." line
format_theater_section(theater, screenings) ==
    [kind |-> "theater", h2 |-> theater,
     text |-> IF screenings = <<>> THEN "No notable screenings selected this week." ELSE "",
     screenings |-> screenings]

\* _format_top_highlights, at most four items
format_top_highlights(highlights) ==
    [kind |-> "top-highlights-section",
     items |-> SubSeq(highlights, 1, IF Len(highlights) < 4 THEN Len(highlights) ELSE 4)]

\* _create_html_body: html_parts
create_html_body(g, highlights, clock) ==
    With(get_week_range(clock), LAMBDA week :
        << [kind |-> "header"],
           [kind |-> "header-section", week_range |-> StrfMonthDay(week.week_start)] >>
        \o (IF highlights # <<>> THEN <<format_top_highlights(highlights)>> ELSE <<>>)
        \o (IF g # <<>>
            THEN [i \in 1..Len(g) |-> format_theater_section(g[i][1], g[i][2])]
            ELSE <<no_screenings_message>>)
        \o With(generate_daily_tasks(g, week.week_start),
                LAMBDA daily_tasks : IF daily_tasks # None THEN daily_tasks ELSE <<>>)
        \o << [kind |-> "footer"] >>)

\* format_email: (subject, html_body)
format_email(g, highlights, clock) ==
    [subject |-> create_subject(clock), html_body |-> create_html_body(g, highlights, clock)]

\* records with and without a ticket sale text and a special note
EmailCatalog ==
    {Nosferatu, HeatWithNote, HeatOnSaleSoon, NotYetTomorrow,
     Screening("Ran", "Metrograph", "Tuesday", "", "35mm", 2, "sept 5", None)}

Highlight ==
    [title |-> "Ran", theater |-> "Metrograph", date_time |-> "Tuesday",
     why_notable |-> "Tickets go on sale Friday"]

InitEmail ==
    /\ now \in {NowFirst, NowFirst + 2}
    /\ pc = "grouped"
    /\ all_screenings = <<>>
    /\ screening = None
    /\ nsub = 0
    /\ work_queue = <<>>
    /\ fut = [a \in Scrapers |-> "unsubmitted"]
    /\ result = [a \in Scrapers |-> None]
    /\ calls = [a \in Scrapers |-> 0]
    /\ yielded = <<>>
    /\ filtered = None
    /\ refiltered = None
    /\ sorted_screenings = None
    /\ grouped \in {Some(group_by_theater(xs)) :
                       xs \in UNION {[1..k -> EmailCatalog] : k \in 0..MaxLen}}
    /\ verdict = None
    /\ parse_now = None
    /\ sale_date = None
    /\ resorted = None
    /\ FetchIdle /\ ClassifierIdle /\ AwardsIdle
    /\ warned = FALSE
    /\ screening_data = None
    /\ validated = None
    /\ top_highlights \in {<<>>, <<Highlight>>}
    /\ email = None
    /\ exit_code = None

\* EmailFormatter().format_email(grouped_screenings, top_highlights)
FormatEmail ==
    /\ pc = "grouped"
    /\ email' = Some(format_email(grouped[1], top_highlights, now))
    /\ pc' = "formatted"
    /\ UNCHANGED <<now, aggregator_state, fetch_state, classifier_state, awards_state,
                   warned, screening_data, validated, top_highlights, exit_code>>

NextEmail == FormatEmail

SpecEmail == InitEmail /\ [][NextEmail]_vars

\* the parts of the body of the given kind
PartsOfKind(k) ==
    {i \in 1..Len(email[1].html_body) : email[1].html_body[i].kind = k}

\* C24: for an empty grouping format_email returns a subject and a body
\* (it does not raise); the body holds the "No special screenings found"
\* message, no venue section and no ticket release calendar.  With a
\* non-empty grouping there is one venue section per venue and no message.
C24_EmptyRendering ==
    /\ pc = "grouped" => ENABLED NextEmail
    /\ email # None =>
           /\ email[1].subject # ""
           /\ grouped[1] = <<>> =>
                  /\ \E i \in PartsOfKind("message") :
                         Contains("No special screenings found", email[1].html_body[i].text)
                  /\ PartsOfKind("theater") = {}
                  /\ PartsOfKind("daily-tasks-section") = {}
           /\ grouped[1] # <<>> =>
                  /\ PartsOfKind("message") = {}
                  /\ Cardinality(PartsOfKind("theater")) = Len(grouped[1])

\* the empty grouping, formatted with a highlight
C24_Witness ==
    /\ email # None
    /\ grouped = Some(<<>>)
    /\ top_highlights # <<>>
    /\ email[1].subject = "NYC Special Screenings: November 03 - November 09"
    /\ Len(email[1].html_body) = 5

----------------------------------------------------------------------------
(* LLMFormatter._validate_priority_theaters (src/llm_formatter.py)         *)
(* (specification SpecPriority)                                            *)

priority_theaters ==
    <<"Film at Lincoln Center", "Angelika Film Center", "AMC Lincoln Square",
      "Paris Theater", "Roxy Cinema">>

\* the test both lookups use: one lowercased name contains the other
NamesMatch(a, b) ==
    With(Lower(a), LAMBDA la : With(Lower(b), LAMBDA lb :
        Contains(la, lb) \/ Contains(lb, la)))

\* find_source_theater: (exact_name, screenings_list), (None, []) when absent
find_source_theater(theater_name, g) ==
    With({i \in 1..Len(g) : g[i][1] = theater_name}, LAMBDA exact :
        IF exact # {} THEN g[MinOf(exact)]
        ELSE With({i \in 1..Len(g) : NamesMatch(theater_name, g[i][1])}, LAMBDA partial :
             IF partial # {} THEN g[MinOf(partial)] ELSE <<None, <<>>>>))

\* the JSON object built for a source screening (x or None); the record of
\* the aggregator model has no time_slot, director, ticket_info or url
screening_json(s) ==
    [title            |-> s.title,
     date_time        |-> IF Strip(s.date \o " ") = "" THEN "See website for times"
                          ELSE Strip(s.date \o " "),
     special_note     |-> IF s.special_note = "" THEN None ELSE Some(s.special_note),
     description      |-> IF s.description = "" THEN None ELSE Some(s.description),
     ticket_sale_date |-> IF s.ticket_sale_date = "" THEN None ELSE Some(s.ticket_sale_date)]

\* added_screenings: source_screenings[:3] as JSON
added_screenings(source_screenings) ==
    [i \in 1..(IF Len(source_screenings) < 3 THEN Len(source_screenings) ELSE 3) |->
        screening_json(source_screenings[i])]

\* index in theaters_list of the section found for a priority name, 0 if none
llm_theater(priority_name, theaters_list) ==
    With({i \in 1..Len(theaters_list) : NamesMatch(priority_name, theaters_list[i].name)},
         LAMBDA hits : IF hits = {} THEN 0 ELSE MinOf(hits))

\* one iteration of the loop over priority_theaters: theaters_list afterwards
CheckPriorityTheater(priority_name, theaters_list, g) ==
    With(llm_theater(priority_name, theaters_list), LAMBDA sec :
    With(find_source_theater(priority_name, g), LAMBDA source :
        IF Len(source[2]) >= 2
              /\ (IF sec = 0 THEN 0 ELSE Len(theaters_list[sec].screenings)) < 2
        THEN IF sec # 0
             THEN [theaters_list EXCEPT ![sec].screenings = added_screenings(source[2])]
             ELSE Append(theaters_list,
                         [name |-> source[1], screenings |-> added_screenings(source[2])])
        ELSE theaters_list))

\* the loop, from the k-th priority theater on
RECURSIVE CheckFrom(_, _, _)
CheckFrom(k, theaters_list, g) ==
    IF k > Len(priority_theaters) THEN theaters_list
    ELSE CheckFrom(k + 1, CheckPriorityTheater(priority_theaters[k], theaters_list, g), g)

\* _validate_priority_theaters.  data.theaters is None when the JSON has no
\* "theaters" key: theaters_list is then the default [] of get(), a list
\* that is not part of screening_data, and what is appended to it is lost
validate_priority_theaters(data, g) ==
    IF data.theaters = None THEN data
    ELSE [data EXCEPT !.theaters = Some(CheckFrom(1, data.theaters[1], g))]

\* source records of a venue, in ranking order
SourceRecord(theater, i) ==
    Screening("Film " \o ToString(i), theater, "Nov 20", "", "", 1, "", None)

SourceList(theater, n) == [i \in 1..n |-> SourceRecord(theater, i)]

\* number of source screenings a venue may have (0: the venue is absent)
SourceCounts ==
    [t \in {"Film at Lincoln Center", "AMC Lincoln Square", "Film Forum"} |->
        IF t = "Film at Lincoln Center" THEN {0, 1, 2, 4}
        ELSE IF t = "AMC Lincoln Square" THEN {0, 2} ELSE {0, 1}]

\* the groupings handed to the formatter
SourceGroupings ==
    {SelectSeq(<< <<"Film at Lincoln Center", SourceList("Film at Lincoln Center", a)>>,
                  <<"AMC Lincoln Square", SourceList("AMC Lincoln Square", b)>>,
                  <<"Film Forum", SourceList("Film Forum", c)>> >>,
               LAMBDA e : e[2] # <<>>) :
        a \in SourceCounts["Film at Lincoln Center"],
        b \in SourceCounts["AMC Lincoln Square"],
        c \in SourceCounts["Film Forum"]}

\* a screening the LLM selected
Selected(i) ==
    [title |-> "Pick " \o ToString(i), date_time |-> "Nov 21, 7:00 PM",
     special_note |-> None, description |-> None, ticket_sale_date |-> None]

\* sections the LLM may return: full names, a shortened name, and a name
\* that is part of two priority names
Sections ==
    {[name |-> n, screenings |-> [i \in 1..k |-> Selected(i)]] :
        n \in {"Film at Lincoln Center", "Lincoln Center", "AMC Lincoln Square", "Lincoln"},
        k \in {0, 1, 2}}

\* the JSON the LLM may return: without a "theaters" key, or with a list of
\* at most two sections
LLMOutputs ==
    {[top_highlights |-> <<>>, theaters |-> None]}
        \cup {[top_highlights |-> <<>>, theaters |-> Some(ts)] :
                 ts \in {<<>>} \cup {<<a>> : a \in Sections}
                               \cup {<<a, b>> : a \in Sections, b \in Sections}}

InitPriority ==
    /\ now = NowFirst
    /\ pc = "validate"
    /\ all_screenings = <<>>
    /\ screening = None
    /\ nsub = 0
    /\ work_queue = <<>>
    /\ fut = [a \in Scrapers |-> "unsubmitted"]
    /\ result = [a \in Scrapers |-> None]
    /\ calls = [a \in Scrapers |-> 0]
    /\ yielded = <<>>
    /\ filtered = None
    /\ refiltered = None
    /\ sorted_screenings = None
    /\ grouped \in {Some(g) : g \in SourceGroupings}
    /\ verdict = None
    /\ parse_now = None
    /\ sale_date = None
    /\ resorted = None
    /\ FetchIdle /\ ClassifierIdle /\ AwardsIdle
    /\ warned = FALSE
    /\ screening_data \in {Some(d) : d \in LLMOutputs}
    /\ validated = None
    /\ top_highlights = <<>>
    /\ email = None
    /\ exit_code = None

\* screening_data = self._validate_priority_theaters(screening_data, grouped_screenings)
Validate ==
    /\ pc = "validate"
    /\ validated' = Some(validate_priority_theaters(screening_data[1], grouped[1]))
    /\ pc' = "validated"
    /\ UNCHANGED <<now, aggregator_state, fetch_state, classifier_state, awards_state,
                   warned, screening_data, top_highlights, email, exit_code>>

NextPriority == Validate

SpecPriority == InitPriority /\ [][NextPriority]_vars

\* the sections of a JSON value, none when the key is missing
SectionsOf(data) == IF data.theaters = None THEN <<>> ELSE data.theaters[1]

\* C26: after _validate_priority_theaters, every priority theater whose
\* source grouping holds at least 2 screenings has a section (a section
\* whose name matches it) with at least 2 screenings in the output; when the
\* LLM selected fewer than 2 for it, these are its top 3 source screenings in
\* ranking order; sections that had 2 or more screenings are unchanged.
C26_PriorityVenueGuarantee ==
    validated # None =>
        With(SectionsOf(screening_data[1]), LAMBDA before :
        With(SectionsOf(validated[1]), LAMBDA after :
            /\ \A k \in 1..Len(priority_theaters) :
                   With(find_source_theater(priority_theaters[k], grouped[1]), LAMBDA source :
                       Len(source[2]) >= 2 =>
                           /\ \E i \in 1..Len(after) :
                                  /\ NamesMatch(priority_theaters[k], after[i].name)
                                  /\ Len(after[i].screenings) >= 2
                           /\ (\A i \in 1..Len(before) :
                                   NamesMatch(priority_theaters[k], before[i].name)
                                       => Len(before[i].screenings) < 2)
                                  => \E i \in 1..Len(after) :
                                         /\ NamesMatch(priority_theaters[k], after[i].name)
                                         /\ after[i].screenings = added_screenings(source[2]))
            /\ \A i \in 1..Len(before) :
                   Len(before[i].screenings) >= 2 => (i <= Len(after) /\ after[i] = before[i])))

----------------------------------------------------------------------------
(* main, steps 4 and 5: LLMFormatter.format_with_llm and EmailSender       *)
(* (specification SpecMain: main from collection to its return)            *)

\* the date of a JSON screening: date_time up to its first comma, stripped,
\* or all of date_time when it has no comma
DateOfDateTime(date_time) ==
    With({i \in 1..Len(date_time) : CharAt(date_time, i) = ","}, LAMBDA commas :
        IF commas = {} THEN date_time
        ELSE Strip(SubSeq(date_time, 1, MinOf(commas) - 1)))

\* x or "" for an optional JSON string
OrEmpty(x) == IF x = None THEN "" ELSE x[1]

\* the Screening built from a JSON screening of the section named
\* theater_name (priority keeps the constructor's default)
ScreeningOfJson(js, theater_name) ==
    Screening(js.title, theater_name, DateOfDateTime(js.date_time),
              OrEmpty(js.description), OrEmpty(js.special_note), 5,
              OrEmpty(js.ticket_sale_date), None)

\* formatted_screenings[theater_name] = [...] for the sections from the k-th
\* on: a repeated name keeps its place and takes the later section's list
RECURSIVE FormattedFrom(_, _, _)
FormattedFrom(sections, k, acc) ==
    IF k > Len(sections) THEN acc
    ELSE With(<<sections[k].name,
                [i \in 1..Len(sections[k].screenings) |->
                    ScreeningOfJson(sections[k].screenings[i], sections[k].name)]>>,
              LAMBDA item :
                  FormattedFrom(sections, k + 1,
                      IF \E i \in 1..Len(acc) : acc[i][1] = item[1]
                      THEN [i \in 1..Len(acc) |-> IF acc[i][1] = item[1] THEN item ELSE acc[i]]
                      ELSE Append(acc, item)))

\* formatted_screenings of the validated JSON
formatted_screenings(data) ==
    FormattedFrom(IF data.theaters = None THEN <<>> ELSE data.theaters[1], 1, <<>>)

\* what json.loads may give for the reply of the LLM
Replies ==
    {[top_highlights |-> <<>>, theaters |-> Some(<<>>)],
     [top_highlights |-> <<>>, theaters |-> None],
     [top_highlights |-> <<Highlight>>,
      theaters |-> Some(<< [name |-> "Film Forum",
                            screenings |-> <<[Selected(1) EXCEPT
                                                !.special_note = Some("35mm")]>>] >>)]}

\* step 4 raises: LLMFormatter() without ANTHROPIC_API_KEY, a failed API
\* call, a reply that is not JSON, a section without a name.  Nothing in
\* main catches it
FormatRaises ==
    /\ pc = "grouped"
    /\ pc' = "aborted"
    /\ UNCHANGED <<now, aggregator_state, elsewhere>>

\* step 4 returns (subject, html_body)
FormatReturns ==
    \E d \in Replies :
        /\ pc = "grouped"
        /\ screening_data' = Some(d)
        /\ validated' = Some(validate_priority_theaters(d, grouped[1]))
        /\ top_highlights' = d.top_highlights
        /\ email' = Some(format_email(formatted_screenings(validated'[1]),
                                      d.top_highlights, now))
        /\ pc' = "formatted"
        /\ UNCHANGED <<now, aggregator_state, fetch_state, classifier_state,
                       awards_state, warned, exit_code>>

\* what step 5 can come to: send_email returns True, returns False (a status
\* other than 200, 201, 202, or an exception it caught itself), or
\* EmailSender() raises
SendOutcomes == {"sent", "not_sent", "sender_raised"}

\* step 5, with main's return
SendStep ==
    \E o \in SendOutcomes :
        /\ pc = "formatted"
        /\ pc' = o
        /\ exit_code' = Some(IF o = "sent" THEN 0 ELSE 1)
        /\ UNCHANGED <<now, aggregator_state, fetch_state, classifier_state,
                       awards_state, warned, screening_data, validated,
                       top_highlights, email>>

NextMain ==
    \/ Begin
    \/ Submit
    \/ WorkerStart
    \/ \E a \in Scrapers : ScrapeReturn(a)
    \/ \E a \in Scrapers : ScrapeRaise(a)
    \/ \E a \in Scrapers : ScrapeHang(a)
    \/ \E a \in Scrapers : Collect(a)
    \/ Shutdown
    \/ FilterStep
    \/ SortStep
    \/ GroupStep
    \/ FormatRaises
    \/ FormatReturns
    \/ SendStep

SpecMain == Init /\ [][NextMain]_vars

\* C25: when collection yields no records, main reports a warning and still
\* executes filtering, sorting, grouping, formatting and sending in that
\* order (it is never aborted, and it stops only once it has returned an
\* exit code); the exit code is 0 iff the email was sent successfully and 1
\* when sending fails or raises.
C25_TotalFailureDoesNotAbort ==
    (CollectReturned /\ all_screenings = <<>>) =>
        /\ pc # "aborted"
        /\ pc # "returned" => (warned /\ filtered # None)
        /\ sorted_screenings # None => filtered # None
        /\ grouped # None => sorted_screenings # None
        /\ email # None => grouped # None
        /\ exit_code # None => email # None
        /\ exit_code # None \/ ENABLED NextMain
        /\ exit_code = Some(0) <=> pc = "sent"
        /\ pc \in {"not_sent", "sender_raised"} => exit_code = Some(1)

====
